---- MODULE Spec2Model ----
(***************************************************************************)
(* Civic issue tracker: the Issue document (server/models/Issue.js), its   *)
(* vote and comment methods, and the request handlers of                   *)
(* server/routes/issues.js and server/routes/admin.js that mutate it.      *)
(*                                                                         *)
(* One issue _id is tracked.  `issue` is the document stored under that    *)
(* _id, `NoDoc` when the collection holds none.  A handler works on a      *)
(* Mongoose document: a copy of the stored fields (`doc`) together with    *)
(* the changes made to it in memory.  Model.prototype.save() does not      *)
(* write the copy back; it sends the delta of the modified paths:          *)
(*   - array.push(x)            -> $push, version key incremented          *)
(*   - path = <new array>       -> $set of the whole array, guarded by     *)
(*                                 {__v: <version read>}, version          *)
(*                                 incremented                             *)
(*   - path = <scalar>          -> $set, unversioned                       *)
(* and fails (VersionError) when the update matches no document.  The      *)
(* schema of Issue.js leaves versionKey at its default, so this applies.   *)
(* findByIdAndUpdate / findByIdAndDelete are single atomic store commands. *)
(*                                                                         *)
(* Vote and comment entries are modelled by the fields the handlers read   *)
(* (user; user, content, isOfficial); votedAt, createdAt and _id of the    *)
(* sub-documents are written once and never read by the server code.       *)
(***************************************************************************)
EXTENDS Integers, Sequences, FiniteSets, TLC

VARIABLES issue, reqs, creator, now, log, issues, listing, overview, users

\* the collection as the listing and statistics handlers see it, their
\* responses, and the accounts of the users collection
listVars == <<issues, listing, overview, users>>

vars == <<issue, reqs, creator, now, log, listVars>>

-----------------------------------------------------------------------------
(* Bounds *)

MaxTime == 1        \* the clock runs 0..MaxTime
MaxReq == 2         \* requests issued against the tracked issue (concurrent specification)
MaxCalls == 4       \* addVote calls applied one after another (sequential specification)
MaxVoteReq == 3     \* vote requests issued against the tracked issue (vote specification)
MaxAccessReq == 2   \* comment, edit and delete requests issued against the tracked issue (access specification)
MaxIssues == 2      \* stored issues in the collection (listing specification)
MaxStatIssues == 3  \* stored issues in the collection (statistics specification)
MaxDay == 4         \* the days over which status requests arrive (statistics specification)
MaxViewReq == 3     \* requests issued against the tracked issue (view specification)
MaxAccountReq == 2  \* account deletion requests (account specification)
MaxApiReq == 2      \* requests issued against the tracked issue (API specification)
MaxFailReq == 2     \* requests issued against the tracked issue (failure specification)

-----------------------------------------------------------------------------
(* Data *)

Users == {"alice", "bob", "carol", "dave"}

\* role of each account; alice is the reporter of the tracked issue
Role(u) == CASE u = "bob" -> "moderator"
             [] u = "carol" -> "admin"
             [] OTHER -> "citizen"

VoteTypes == {"upvote", "downvote"}

Statuses == {"Open", "In Progress", "Under Review", "Resolved", "Closed", "Rejected"}

Priorities == {"Low", "Medium", "High", "Critical"}

\* a Date path that has never been set (actualResolutionDate has no default)
NoDate == -1

NoUser == "null"

NoDoc == [exists |-> FALSE]

\* no listing has been requested, no statistics have been requested
NoListing == [kind |-> "none"]

NoOverview == [kind |-> "none"]

\* new Issue({...}) : the schema defaults, lastActivity defaulting to Date.now
\* when the document is constructed
NewIssue(reporter, title, priority, t) ==
    [exists |-> TRUE,
     title |-> title,
     priority |-> priority,
     status |-> "Open",
     reporter |-> reporter,
     assignedTo |-> NoUser,
     upvotes |-> <<>>,
     downvotes |-> <<>>,
     comments |-> <<>>,
     actualResolutionDate |-> NoDate,
     viewCount |-> 0,
     lastActivity |-> t,
     createdAt |-> NoDate,
     v |-> 0]

-----------------------------------------------------------------------------
(* The Mongoose document held by a handler *)

NoPush == [upvotes |-> <<>>, downvotes |-> <<>>, comments |-> <<>>]

\* Issue.findById: hydrate a document from the stored one, nothing modified
Load(stored) == [doc |-> stored, set |-> {}, push |-> NoPush]

Range(s) == {s[i] : i \in 1..Len(s)}

\* a filter that keeps nothing: every entry of the array is dropped
WithoutAll(s, u) == <<>>

\* array.filter(vote => vote.user.toString() !== userId.toString())
Without(s, u) == SelectSeq(s, LAMBDA x : x # u)

\* voteCount that forgets the downvotes
VoteCountUpOnly(d) == Len(d.upvotes)

\* virtual voteCount
VoteCount(d) == Len(d.upvotes) - Len(d.downvotes)

\* methods.hasUserVoted
HasUserVoted(d, u) ==
    [upvoted |-> \E i \in 1..Len(d.upvotes) : d.upvotes[i] = u,
     downvoted |-> \E i \in 1..Len(d.downvotes) : d.downvotes[i] = u]

\* methods.addVote without the flip: the opposite array is left alone
AddVoteNoFlip(m, u, voteType, t) ==
    LET h == HasUserVoted(m.doc, u)
        d == m.doc
    IN  IF voteType = "upvote"
        THEN IF h.upvoted
             THEN [doc |-> [d EXCEPT !.upvotes = Without(d.upvotes, u), !.lastActivity = t],
                   set |-> m.set \cup {"upvotes", "lastActivity"},
                   push |-> m.push]
             ELSE [doc |-> [d EXCEPT !.upvotes = Append(d.upvotes, u), !.lastActivity = t],
                   set |-> m.set \cup {"lastActivity"},
                   push |-> [m.push EXCEPT !.upvotes = Append(@, u)]]
        ELSE IF voteType = "downvote"
        THEN IF h.downvoted
             THEN [doc |-> [d EXCEPT !.downvotes = Without(d.downvotes, u), !.lastActivity = t],
                   set |-> m.set \cup {"downvotes", "lastActivity"},
                   push |-> m.push]
             ELSE [doc |-> [d EXCEPT !.downvotes = Append(d.downvotes, u), !.lastActivity = t],
                   set |-> m.set \cup {"lastActivity"},
                   push |-> [m.push EXCEPT !.downvotes = Append(@, u)]]
        ELSE [m EXCEPT !.doc.lastActivity = t, !.set = @ \cup {"lastActivity"}]

\* methods.addVote without the toggle-off: a repeated vote is pushed again
AddVoteNoToggleOff(m, u, voteType, t) ==
    LET h == HasUserVoted(m.doc, u)
        d == m.doc
    IN  IF voteType = "upvote"
        THEN [doc |-> [d EXCEPT !.downvotes = IF h.downvoted THEN Without(d.downvotes, u) ELSE @,
                                !.upvotes = Append(d.upvotes, u),
                                !.lastActivity = t],
              set |-> m.set \cup (IF h.downvoted THEN {"downvotes"} ELSE {}) \cup {"lastActivity"},
              push |-> [m.push EXCEPT !.upvotes = Append(@, u)]]
        ELSE [doc |-> [d EXCEPT !.upvotes = IF h.upvoted THEN Without(d.upvotes, u) ELSE @,
                                !.downvotes = Append(d.downvotes, u),
                                !.lastActivity = t],
              set |-> m.set \cup (IF h.upvoted THEN {"upvotes"} ELSE {}) \cup {"lastActivity"},
              push |-> [m.push EXCEPT !.downvotes = Append(@, u)]]

\* methods.addVote, the part before save(): toggle u's vote in the in-memory
\* document and stamp lastActivity = new Date()
AddVote(m, u, voteType, t) ==
    LET h == HasUserVoted(m.doc, u)
        d == m.doc
    IN  IF voteType = "upvote"
        THEN IF h.upvoted
             THEN [doc |-> [d EXCEPT !.upvotes = Without(d.upvotes, u), !.lastActivity = t],
                   set |-> m.set \cup {"upvotes", "lastActivity"},
                   push |-> m.push]
             ELSE [doc |-> [d EXCEPT !.downvotes = IF h.downvoted THEN Without(d.downvotes, u) ELSE @,
                                     !.upvotes = Append(d.upvotes, u),
                                     !.lastActivity = t],
                   set |-> m.set \cup (IF h.downvoted THEN {"downvotes"} ELSE {}) \cup {"lastActivity"},
                   push |-> [m.push EXCEPT !.upvotes = Append(@, u)]]
        ELSE IF voteType = "downvote"
        THEN IF h.downvoted
             THEN [doc |-> [d EXCEPT !.downvotes = Without(d.downvotes, u), !.lastActivity = t],
                   set |-> m.set \cup {"downvotes", "lastActivity"},
                   push |-> m.push]
             ELSE [doc |-> [d EXCEPT !.upvotes = IF h.upvoted THEN Without(d.upvotes, u) ELSE @,
                                     !.downvotes = Append(d.downvotes, u),
                                     !.lastActivity = t],
                   set |-> m.set \cup (IF h.upvoted THEN {"upvotes"} ELSE {}) \cup {"lastActivity"},
                   push |-> [m.push EXCEPT !.downvotes = Append(@, u)]]
        ELSE [m EXCEPT !.doc.lastActivity = t, !.set = @ \cup {"lastActivity"}]

\* methods.addComment, the part before save()
AddComment(m, u, content, isOfficial, t) ==
    LET c == [user |-> u, content |-> content, isOfficial |-> isOfficial]
    IN  [doc |-> [m.doc EXCEPT !.comments = Append(@, c), !.lastActivity = t],
         set |-> m.set \cup {"lastActivity"},
         push |-> [m.push EXCEPT !.comments = Append(@, c)]]

\* save() with versioning switched off: no condition on the version read
VersionWhereOff(m) == FALSE

\* save(): an assigned array puts the version read into the update's
\* condition; a pushed or assigned array increments the version
VersionWhere(m) == m.set \cap {"upvotes", "downvotes"} # {}

VersionInc(m) == VersionWhere(m) \/ m.push # NoPush

\* save(): does the update match the stored document
SaveMatches(stored, m) ==
    /\ stored.exists
    /\ VersionWhere(m) => stored.v = m.doc.v

\* save() writing back the arrays of the in-memory copy instead of the delta
SaveApplyWhole(stored, m) ==
    [stored EXCEPT
       !.upvotes = m.doc.upvotes,
       !.downvotes = m.doc.downvotes,
       !.comments = m.doc.comments,
       !.viewCount = IF "viewCount" \in m.set THEN m.doc.viewCount ELSE @,
       !.lastActivity = IF "lastActivity" \in m.set THEN m.doc.lastActivity ELSE @,
       !.v = IF m.set \cap {"upvotes", "downvotes"} # {} \/ m.push # NoPush THEN @ + 1 ELSE @]

\* save(): the stored document after the delta of m has been applied
SaveApply(stored, m) ==
    [stored EXCEPT
       !.upvotes = IF "upvotes" \in m.set THEN m.doc.upvotes ELSE @ \o m.push.upvotes,
       !.downvotes = IF "downvotes" \in m.set THEN m.doc.downvotes ELSE @ \o m.push.downvotes,
       !.comments = @ \o m.push.comments,
       !.viewCount = IF "viewCount" \in m.set THEN m.doc.viewCount ELSE @,
       !.lastActivity = IF "lastActivity" \in m.set THEN m.doc.lastActivity ELSE @,
       !.v = IF VersionInc(m) THEN @ + 1 ELSE @]

\* save(): the in-memory document once the save has succeeded
Saved(m) == [doc |-> [m.doc EXCEPT !.v = IF VersionInc(m) THEN @ + 1 ELSE @],
             set |-> {}, push |-> NoPush]

-----------------------------------------------------------------------------
(* The clock: new Date() returns the time of the previous reading or a     *)
(* later one.                                                              *)

Clock == {t \in now..(now + 1) : t <= MaxTime}

-----------------------------------------------------------------------------
(* Sequential specification: addVote calls applied one after another to one *)
(* issue, each call running to the end of its save before the next starts. *)

InitSeq ==
    /\ issue = [NewIssue("alice", "Pothole", "Medium", 0) EXCEPT !.createdAt = 0]
    /\ reqs = <<>>
    /\ creator = [pc |-> "done"]
    /\ now = 0
    /\ log = <<>>
    /\ issues = <<>>
    /\ listing = NoListing
    /\ overview = NoOverview
    /\ users = Users

\* issue = findById(id); issue.addVote(u, voteType), new Date() giving t
SeqVote(u, voteType, t) ==
    /\ Len(log) < MaxCalls
    /\ LET m == AddVote(Load(issue), u, voteType, t)
       IN  /\ SaveMatches(issue, m)
           /\ issue' = SaveApply(issue, m)
           /\ log' = Append(log, [user |-> u, voteType |-> voteType,
                                  before |-> HasUserVoted(issue, u)])
    /\ now' = t
    /\ UNCHANGED <<reqs, creator, listVars>>

NextSeq ==
    \E u \in Users, voteType \in VoteTypes, t \in Clock : SeqVote(u, voteType, t)

SpecSeq == InitSeq /\ [][NextSeq]_vars

-----------------------------------------------------------------------------
(* Concurrent specification: the request handlers, one action per store    *)
(* command and per continuation that reads the clock.  Node runs each      *)
(* continuation to its next await without interruption; the store applies  *)
(* each command atomically; commands of different requests interleave.  A  *)
(* request becomes visible with its first store command or clock reading.  *)

Slots == DOMAIN reqs

Idle == [pc |-> "idle"]

\* a request names the _id that the 201 response of POST / has returned;
\* slots are taken in order: the requests are distinguished by what they do
CanStart(r) ==
    /\ creator.pc = "done"
    /\ reqs[r].pc = "idle"
    /\ \A q \in 1..(r - 1) : reqs[q].pc # "idle"

\* res.status(code).json(...)
Respond(kind, code) == [kind |-> kind, pc |-> "done", code |-> code]

\* middleware adminAuth: the account must be an admin
AdminAuth(u) == Role(u) = "admin"

\* middleware auth: the token's account is looked up in the users collection
Auth(u) == u \in users

\* express-validator chains of the handlers; validationResult(req) not empty
\* means 400 before the store is called

\* the length of the titles that requests carry
TitleLength(title) == CASE title = "Hole" -> 4
                        [] title = "Pothole" -> 7
                        [] title = "Deep pothole" -> 12
                        [] OTHER -> 0

\* String.prototype.trim on the comment texts that requests carry
Trim(content) == IF content = " " THEN "" ELSE content

\* body('voteType').isIn(['upvote', 'downvote'])
VoteValid(voteType) == voteType \in VoteTypes

\* body('content').trim().isLength({min: 1, max: 500})
CommentValid(content) == Trim(content) # ""

\* body('title').optional().trim().isLength({min: 5, max: 100}),
\* body('priority').optional().isIn([...]); "" is an absent field
EditValid(body) ==
    /\ body.title # "" => (TitleLength(body.title) >= 5 /\ TitleLength(body.title) <= 100)
    /\ body.priority # "" => body.priority \in Priorities

\* body('status').isIn([...])
StatusValid(body) == body.status \in Statuses

\* body('priority').isIn([...])
PriorityValid(priority) == priority \in Priorities

Voters == {"alice", "bob"}

\* bodies of POST /:id/comments with the account sending them
CommentInputs == {[user |-> "alice", content |-> "seen it too", isOfficial |-> FALSE],
                  [user |-> "alice", content |-> "seen it too", isOfficial |-> TRUE],
                  [user |-> "bob", content |-> "crew assigned", isOfficial |-> TRUE]}

Editors == {"alice", "dave"}

\* bodies of PUT /:id; an absent field is ""
EditBodies == {[title |-> "Deep pothole", priority |-> ""]}

Deleters == {"alice", "bob"}

Admins == {"carol", "bob"}

\* bodies of PUT /admin/issues/:id/status; an absent assignedTo is NoUser
StatusBodies == {[status |-> "In Progress", assignedTo |-> "bob"],
                 [status |-> "Resolved", assignedTo |-> NoUser],
                 [status |-> "Closed", assignedTo |-> NoUser]}

PriorityInputs == {"Critical"}

Init ==
    /\ issue = NoDoc
    /\ reqs = [r \in 1..MaxReq |-> Idle]
    /\ creator = [pc |-> "idle"]
    /\ now = 0
    /\ log = <<>>
    /\ issues = <<>>
    /\ listing = NoListing
    /\ overview = NoOverview
    /\ users = Users

(* POST / : create the tracked issue *)

\* auth has found the reporter's account; new Issue({...}) with the request's
\* fields; status is not taken from the body
CreateBuild(title, priority, t) ==
    /\ creator.pc = "idle"
    /\ Auth("alice")
    /\ creator' = [pc |-> "save", doc |-> NewIssue("alice", title, priority, t)]
    /\ now' = t
    /\ UNCHANGED <<issue, reqs, log, listVars>>

\* issue.save(): the timestamps hook sets createdAt, then the insert
CreateSave(t) ==
    /\ creator.pc = "save"
    /\ issue' = [creator.doc EXCEPT !.createdAt = t]
    /\ creator' = [pc |-> "done"]
    /\ now' = t
    /\ UNCHANGED <<reqs, log, listVars>>

(* POST /:id/vote *)

\* validation, then Issue.findById
VoteFind(r, u, voteType) ==
    /\ CanStart(r)
    /\ reqs' = [reqs EXCEPT ![r] =
                  IF ~VoteValid(voteType) THEN Respond("vote", 400)
                  ELSE IF ~issue.exists THEN Respond("vote", 404)
                  ELSE [kind |-> "vote", user |-> u, voteType |-> voteType,
                        pc |-> "toggle", code |-> 0, m |-> Load(issue)]]
    /\ UNCHANGED <<issue, creator, now, log, listVars>>

\* issue.addVote up to its save()
VoteToggle(r, t) ==
    LET q == reqs[r] IN
    /\ q.pc = "toggle"
    /\ reqs' = [reqs EXCEPT ![r] = [q EXCEPT !.pc = "save",
                                             !.m = AddVote(q.m, q.user, q.voteType, t)]]
    /\ now' = t
    /\ UNCHANGED <<issue, creator, log, listVars>>

\* the save() of addVote at the store, then the response
VoteSave(r) ==
    LET q == reqs[r] IN
    /\ q.pc = "save" /\ q.kind = "vote"
    /\ IF SaveMatches(issue, q.m)
       THEN /\ issue' = SaveApply(issue, q.m)
            /\ reqs' = [reqs EXCEPT ![r] =
                          [kind |-> q.kind, user |-> q.user, voteType |-> q.voteType,
                           pc |-> "done", code |-> 200,
                           readV |-> q.m.doc.v,
                           voteCount |-> VoteCount(Saved(q.m).doc),
                           userVote |-> HasUserVoted(Saved(q.m).doc, q.user)]]
       ELSE /\ reqs' = [reqs EXCEPT ![r] = Respond(q.kind, 500)]
            /\ UNCHANGED issue
    /\ UNCHANGED <<creator, now, log, listVars>>

(* POST /:id/comments *)

\* validation, then Issue.findById
CommentFind(r, u, content, isOfficial) ==
    /\ CanStart(r)
    /\ reqs' = [reqs EXCEPT ![r] =
                  IF ~CommentValid(content) THEN Respond("comment", 400)
                  ELSE IF ~issue.exists THEN Respond("comment", 404)
                  ELSE [kind |-> "comment", user |-> u, content |-> content,
                        isOfficial |-> isOfficial, pc |-> "add", code |-> 0,
                        m |-> Load(issue)]]
    /\ UNCHANGED <<issue, creator, now, log, listVars>>

\* POST /:id/comments without the official-comment check
CommentAddUnchecked(r, t) ==
    LET q == reqs[r] IN
    /\ q.pc = "add"
    /\ reqs' = [reqs EXCEPT ![r] =
                  [q EXCEPT !.pc = "save",
                            !.m = AddComment(q.m, q.user, q.content, q.isOfficial, t)]]
    /\ now' = t
    /\ UNCHANGED <<issue, creator, log, listVars>>

\* the official-comment check, then issue.addComment up to its save()
CommentAdd(r, t) ==
    LET q == reqs[r] IN
    /\ q.pc = "add"
    /\ IF q.isOfficial /\ Role(q.user) # "admin" /\ Role(q.user) # "moderator"
       THEN /\ reqs' = [reqs EXCEPT ![r] = Respond(q.kind, 403)]
            /\ UNCHANGED now
       ELSE /\ reqs' = [reqs EXCEPT ![r] =
                          [q EXCEPT !.pc = "save",
                                    !.m = AddComment(q.m, q.user, q.content, q.isOfficial, t)]]
            /\ now' = t
    /\ UNCHANGED <<issue, creator, log, listVars>>

\* the save() of addComment at the store
CommentSave(r) ==
    LET q == reqs[r] IN
    /\ q.pc = "save" /\ q.kind = "comment"
    /\ IF SaveMatches(issue, q.m)
       THEN /\ issue' = SaveApply(issue, q.m)
            /\ reqs' = [reqs EXCEPT ![r] = [kind |-> q.kind, pc |-> "refetch", code |-> 0]]
       ELSE /\ reqs' = [reqs EXCEPT ![r] = Respond(q.kind, 500)]
            /\ UNCHANGED issue
    /\ UNCHANGED <<creator, now, log, listVars>>

\* Issue.findById for the response body (null when the issue is gone)
CommentRefetch(r) ==
    LET q == reqs[r] IN
    /\ q.pc = "refetch"
    /\ reqs' = [reqs EXCEPT ![r] = Respond(q.kind, 200)]
    /\ UNCHANGED <<issue, creator, now, log, listVars>>

(* PUT /:id *)

\* validation, then Issue.findById
EditFind(r, u, body) ==
    /\ CanStart(r)
    /\ reqs' = [reqs EXCEPT ![r] =
                  IF ~EditValid(body) THEN Respond("edit", 400)
                  ELSE IF ~issue.exists THEN Respond("edit", 404)
                  ELSE [kind |-> "edit", user |-> u, body |-> body,
                        pc |-> "check", code |-> 0, reporter |-> issue.reporter]]
    /\ UNCHANGED <<issue, creator, now, log, listVars>>

\* PUT /:id without the owner / admin / moderator check
EditCheckOpen(r, t) ==
    LET q == reqs[r] IN
    /\ q.pc = "check"
    /\ reqs' = [reqs EXCEPT ![r] =
                  [kind |-> q.kind, user |-> q.user, pc |-> "update", code |-> 0,
                   updateData |-> [title |-> q.body.title, priority |-> q.body.priority,
                                   lastActivity |-> t]]]
    /\ now' = t
    /\ UNCHANGED <<issue, creator, log, listVars>>

\* the owner / admin / moderator check, then updateData with lastActivity = new Date()
EditCheck(r, t) ==
    LET q == reqs[r] IN
    /\ q.pc = "check"
    /\ IF q.reporter # q.user /\ Role(q.user) # "admin" /\ Role(q.user) # "moderator"
       THEN /\ reqs' = [reqs EXCEPT ![r] = Respond(q.kind, 403)]
            /\ UNCHANGED now
       ELSE /\ reqs' = [reqs EXCEPT ![r] =
                          [kind |-> q.kind, user |-> q.user, pc |-> "update", code |-> 0,
                           updateData |-> [title |-> q.body.title, priority |-> q.body.priority,
                                           lastActivity |-> t]]]
            /\ now' = t
    /\ UNCHANGED <<issue, creator, log, listVars>>

\* Issue.findByIdAndUpdate(id, updateData): fields absent from updateData keep
\* their value; the response is 200 also when no document matched
EditUpdate(r) ==
    LET q == reqs[r] IN
    /\ q.pc = "update" /\ q.kind = "edit"
    /\ issue' = IF issue.exists
                THEN [issue EXCEPT !.title = IF q.updateData.title # "" THEN q.updateData.title ELSE @,
                                   !.priority = IF q.updateData.priority # "" THEN q.updateData.priority ELSE @,
                                   !.lastActivity = q.updateData.lastActivity]
                ELSE issue
    /\ reqs' = [reqs EXCEPT ![r] = Respond(q.kind, 200)]
    /\ UNCHANGED <<creator, now, log, listVars>>

(* PUT /admin/issues/:id/status *)

\* PUT /admin/issues/:id/status without adminAuth
StartStatusNoAuth(r, u, body, t) ==
    /\ CanStart(r)
    /\ IF ~StatusValid(body)
       THEN /\ reqs' = [reqs EXCEPT ![r] = Respond("status", 400)]
            /\ UNCHANGED now
       ELSE /\ reqs' = [reqs EXCEPT ![r] =
                          [kind |-> "status", user |-> u, pc |-> "update", code |-> 0,
                           updateData |-> [status |-> body.status,
                                           lastActivity |-> t,
                                           assignedTo |-> body.assignedTo,
                                           actualResolutionDate |->
                                               IF body.status = "Resolved" \/ body.status = "Closed"
                                               THEN t ELSE NoDate]]]
            /\ now' = t
    /\ UNCHANGED <<issue, creator, log, listVars>>

\* PUT /admin/issues/:id/status stamping actualResolutionDate for Resolved only
StartStatusResolvedOnly(r, u, body, t) ==
    /\ CanStart(r)
    /\ IF ~AdminAuth(u)
       THEN /\ reqs' = [reqs EXCEPT ![r] = Respond("status", 403)]
            /\ UNCHANGED now
       ELSE IF ~StatusValid(body)
       THEN /\ reqs' = [reqs EXCEPT ![r] = Respond("status", 400)]
            /\ UNCHANGED now
       ELSE /\ reqs' = [reqs EXCEPT ![r] =
                          [kind |-> "status", user |-> u, pc |-> "update", code |-> 0,
                           updateData |-> [status |-> body.status,
                                           lastActivity |-> t,
                                           assignedTo |-> body.assignedTo,
                                           actualResolutionDate |->
                                               IF body.status = "Resolved" THEN t ELSE NoDate]]]
            /\ now' = t
    /\ UNCHANGED <<issue, creator, log, listVars>>

\* adminAuth, validation, then updateData built before the store is called
StartStatus(r, u, body, t) ==
    /\ CanStart(r)
    /\ IF ~AdminAuth(u)
       THEN /\ reqs' = [reqs EXCEPT ![r] = Respond("status", 403)]
            /\ UNCHANGED now
       ELSE IF ~StatusValid(body)
       THEN /\ reqs' = [reqs EXCEPT ![r] = Respond("status", 400)]
            /\ UNCHANGED now
       ELSE /\ reqs' = [reqs EXCEPT ![r] =
                          [kind |-> "status", user |-> u, pc |-> "update", code |-> 0,
                           updateData |-> [status |-> body.status,
                                           lastActivity |-> t,
                                           assignedTo |-> body.assignedTo,
                                           actualResolutionDate |->
                                               IF body.status = "Resolved" \/ body.status = "Closed"
                                               THEN t ELSE NoDate]]]
            /\ now' = t
    /\ UNCHANGED <<issue, creator, log, listVars>>

\* Issue.findByIdAndUpdate(id, updateData); null means 404
StatusUpdate(r) ==
    LET q == reqs[r]
        d == q.updateData
    IN
    /\ q.pc = "update" /\ q.kind = "status"
    /\ IF issue.exists
       THEN /\ issue' = [issue EXCEPT
                           !.status = d.status,
                           !.lastActivity = d.lastActivity,
                           !.assignedTo = IF d.assignedTo # NoUser THEN d.assignedTo ELSE @,
                           !.actualResolutionDate =
                               IF d.actualResolutionDate # NoDate THEN d.actualResolutionDate ELSE @]
            /\ reqs' = [reqs EXCEPT ![r] = Respond(q.kind, 200)]
       ELSE /\ reqs' = [reqs EXCEPT ![r] = Respond(q.kind, 404)]
            /\ UNCHANGED issue
    /\ UNCHANGED <<creator, now, log, listVars>>

(* PUT /admin/issues/:id/priority *)

\* adminAuth, validation, then the update document built before the store is called
StartPriority(r, u, priority, t) ==
    /\ CanStart(r)
    /\ IF ~AdminAuth(u)
       THEN /\ reqs' = [reqs EXCEPT ![r] = Respond("priority", 403)]
            /\ UNCHANGED now
       ELSE IF ~PriorityValid(priority)
       THEN /\ reqs' = [reqs EXCEPT ![r] = Respond("priority", 400)]
            /\ UNCHANGED now
       ELSE /\ reqs' = [reqs EXCEPT ![r] =
                          [kind |-> "priority", user |-> u, pc |-> "update", code |-> 0,
                           updateData |-> [priority |-> priority, lastActivity |-> t]]]
            /\ now' = t
    /\ UNCHANGED <<issue, creator, log, listVars>>

\* Issue.findByIdAndUpdate(id, {priority, lastActivity}); null means 404
PriorityUpdate(r) ==
    LET q == reqs[r] IN
    /\ q.pc = "update" /\ q.kind = "priority"
    /\ IF issue.exists
       THEN /\ issue' = [issue EXCEPT !.priority = q.updateData.priority,
                                      !.lastActivity = q.updateData.lastActivity]
            /\ reqs' = [reqs EXCEPT ![r] = Respond(q.kind, 200)]
       ELSE /\ reqs' = [reqs EXCEPT ![r] = Respond(q.kind, 404)]
            /\ UNCHANGED issue
    /\ UNCHANGED <<creator, now, log, listVars>>

(* DELETE /:id *)

\* DELETE /:id with the check of PUT /:id: a moderator passes
DeleteFindModerator(r, u) ==
    /\ CanStart(r)
    /\ reqs' = [reqs EXCEPT ![r] =
                  IF ~issue.exists THEN Respond("delete", 404)
                  ELSE IF issue.reporter # u /\ Role(u) # "admin" /\ Role(u) # "moderator"
                  THEN Respond("delete", 403)
                  ELSE [kind |-> "delete", user |-> u, pc |-> "delete", code |-> 0]]
    /\ UNCHANGED <<issue, creator, now, log, listVars>>

\* DELETE /:id deleting before the owner / admin check
DeleteFindThenCheck(r, u) ==
    /\ CanStart(r)
    /\ reqs' = [reqs EXCEPT ![r] =
                  IF ~issue.exists THEN Respond("delete", 404)
                  ELSE IF issue.reporter # u /\ Role(u) # "admin"
                  THEN Respond("delete", 403)
                  ELSE [kind |-> "delete", user |-> u, pc |-> "delete", code |-> 0]]
    /\ issue' = NoDoc
    /\ UNCHANGED <<creator, now, log, listVars>>

\* Issue.findById, then the owner / admin check
DeleteFind(r, u) ==
    /\ CanStart(r)
    /\ reqs' = [reqs EXCEPT ![r] =
                  IF ~issue.exists THEN Respond("delete", 404)
                  ELSE IF issue.reporter # u /\ Role(u) # "admin"
                  THEN Respond("delete", 403)
                  ELSE [kind |-> "delete", user |-> u, pc |-> "delete", code |-> 0]]
    /\ UNCHANGED <<issue, creator, now, log, listVars>>

\* Issue.findByIdAndDelete
DeleteExec(r) ==
    LET q == reqs[r] IN
    /\ q.pc = "delete"
    /\ issue' = NoDoc
    /\ reqs' = [reqs EXCEPT ![r] = Respond(q.kind, 200)]
    /\ UNCHANGED <<creator, now, log, listVars>>

Next ==
    \/ \E title \in {"Pothole"}, priority \in {"Medium"}, t \in Clock : CreateBuild(title, priority, t)
    \/ \E t \in Clock : CreateSave(t)
    \/ \E r \in Slots, u \in Voters, voteType \in VoteTypes : VoteFind(r, u, voteType)
    \/ \E r \in Slots, t \in Clock : VoteToggle(r, t)
    \/ \E r \in Slots : VoteSave(r)
    \/ \E r \in Slots, c \in CommentInputs : CommentFind(r, c.user, c.content, c.isOfficial)
    \/ \E r \in Slots, t \in Clock : CommentAdd(r, t)
    \/ \E r \in Slots : CommentSave(r)
    \/ \E r \in Slots : CommentRefetch(r)
    \/ \E r \in Slots, u \in Editors, body \in EditBodies : EditFind(r, u, body)
    \/ \E r \in Slots, t \in Clock : EditCheck(r, t)
    \/ \E r \in Slots : EditUpdate(r)
    \/ \E r \in Slots, u \in Admins, body \in StatusBodies, t \in Clock : StartStatus(r, u, body, t)
    \/ \E r \in Slots : StatusUpdate(r)
    \/ \E r \in Slots, u \in Admins, priority \in PriorityInputs, t \in Clock : StartPriority(r, u, priority, t)
    \/ \E r \in Slots : PriorityUpdate(r)
    \/ \E r \in Slots, u \in Deleters : DeleteFind(r, u)
    \/ \E r \in Slots : DeleteExec(r)

Spec == Init /\ [][Next]_vars

-----------------------------------------------------------------------------
(* Vote specification: concurrent POST /:id/vote requests on an issue that  *)
(* has been created, nothing else running.                                 *)

InitVote ==
    /\ issue = [NewIssue("alice", "Pothole", "Medium", 0) EXCEPT !.createdAt = 0]
    /\ reqs = [r \in 1..MaxVoteReq |-> Idle]
    /\ creator = [pc |-> "done"]
    /\ now = 0
    /\ log = <<>>
    /\ issues = <<>>
    /\ listing = NoListing
    /\ overview = NoOverview
    /\ users = Users

NextVote ==
    \/ \E r \in Slots, u \in Voters, voteType \in VoteTypes : VoteFind(r, u, voteType)
    \/ \E r \in Slots, t \in Clock : VoteToggle(r, t)
    \/ \E r \in Slots : VoteSave(r)

SpecVote == InitVote /\ [][NextVote]_vars

-----------------------------------------------------------------------------
(* Access specification: POST /:id/comments, PUT /:id and DELETE /:id sent  *)
(* by every kind of account (reporter, citizen, moderator, admin) against   *)
(* an issue that has been created.                                         *)

InitAccess ==
    /\ issue = [NewIssue("alice", "Pothole", "Medium", 0) EXCEPT !.createdAt = 0]
    /\ reqs = [r \in 1..MaxAccessReq |-> Idle]
    /\ creator = [pc |-> "done"]
    /\ now = 0
    /\ log = <<>>
    /\ issues = <<>>
    /\ listing = NoListing
    /\ overview = NoOverview
    /\ users = Users

NextAccess ==
    \/ \E r \in Slots, u \in Users, isOfficial \in BOOLEAN : CommentFind(r, u, "noted", isOfficial)
    \/ \E r \in Slots, t \in Clock : CommentAdd(r, t)
    \/ \E r \in Slots : CommentSave(r)
    \/ \E r \in Slots : CommentRefetch(r)
    \/ \E r \in Slots, u \in Users, body \in EditBodies : EditFind(r, u, body)
    \/ \E r \in Slots, t \in Clock : EditCheck(r, t)
    \/ \E r \in Slots : EditUpdate(r)
    \/ \E r \in Slots, u \in Users : DeleteFind(r, u)
    \/ \E r \in Slots : DeleteExec(r)

SpecAccess == InitAccess /\ [][NextAccess]_vars

-----------------------------------------------------------------------------
(* The issues collection as GET / (issues.js) and GET /issues (admin.js)    *)
(* query it.  `issues` holds the stored documents in insertion order; a    *)
(* document is named by its position.  Text is the sequence of its         *)
(* characters.  req.query is a function whose domain is the set of         *)
(* parameters the request supplies.                                        *)

Categories == {"Roads & Transportation", "Public Safety", "Environment", "Utilities",
               "Parks & Recreation", "Housing", "Education", "Healthcare", "Other"}

SortFields == {"createdAt", "voteCount", "priority", "lastActivity"}

SortOrders == {"asc", "desc"}

Min(a, b) == IF a <= b THEN a ELSE b

Abs(x) == IF x < 0 THEN 0 - x ELSE x

\* the letters of the modelled texts under the regular expression option 'i'
Lower(c) == CASE c = "P" -> "p"
              [] c = "O" -> "o"
              [] c = "T" -> "t"
              [] c = "L" -> "l"
              [] c = "B" -> "b"
              [] OTHER -> c

\* new RegExp(search, 'i') / $regex: an unclosed group is a syntax error
ValidRegex(p) == \A j \in 1..Len(p) : p[j] # "("

\* the regular expression p, made of literal characters and of '.', which
\* stands for any character, finds a match somewhere in text
RegexTest(p, text) ==
    \E i \in 0..(Len(text) - Len(p)) :
        \A j \in 1..Len(p) : p[j] = "." \/ Lower(p[j]) = Lower(text[i + j])

\* the search taken as plain text instead of as a regular expression
SearchMatchesLiteral(d, search) ==
    LET In(text) == \E i \in 0..(Len(text) - Len(search)) :
                        \A j \in 1..Len(search) : Lower(search[j]) = Lower(text[i + j])
    IN  \/ In(d.title)
        \/ In(d.description)
        \/ \E k \in 1..Len(d.tags) : In(d.tags[k])

\* filter.$or : title, description or an element of tags matches the search
SearchMatches(d, search) ==
    \/ RegexTest(search, d.title)
    \/ RegexTest(search, d.description)
    \/ \E k \in 1..Len(d.tags) : RegexTest(search, d.tags[k])

\* if (x) on a query parameter that has passed its isIn validator: supplied
Given(q, name) == name \in DOMAIN q

\* the destructuring default: used when the parameter is not supplied
Param(q, name, default) == IF name \in DOMAIN q THEN q[name] ELSE default

\* the filter object: does document d satisfy it (base is {isPublic: true}
\* in the public listing, {} in the admin listing)
FilterMatches(d, q, publicOnly) ==
    /\ publicOnly => d.isPublic
    /\ Given(q, "category") => d.category = q.category
    /\ Given(q, "status") => d.status = q.status
    /\ Given(q, "priority") => d.priority = q.priority
    /\ ("search" \in DOMAIN q /\ q.search # <<>>) => SearchMatches(d, q.search)

\* Issue.countDocuments(filter)
CountDocuments(q, publicOnly) ==
    Cardinality({i \in 1..Len(issues) : FilterMatches(issues[i], q, publicOnly)})

(* Numbers with a fractional part, kept as fractions n/d with d > 0 *)

Frac(n, d) == IF d < 0 THEN [n |-> 0 - n, d |-> 0 - d] ELSE [n |-> n, d |-> d]

FSub(a, b) == Frac(a.n * b.d - b.n * a.d, a.d * b.d)

FAdd(a, b) == Frac(a.n * b.d + b.n * a.d, a.d * b.d)

FMul(a, b) == Frac(a.n * b.n, a.d * b.d)

FDiv(a, b) == Frac(a.n * b.d, a.d * b.n)

FLe(a, b) == a.n * b.d <= b.n * a.d

\* Math.cos(userLat * Math.PI / 180), tabulated to three decimals for the
\* latitudes the requests use
Cos(lat) == CASE lat = 0 -> Frac(1, 1)
              [] lat = 40 -> Frac(766, 1000)
              [] lat = 60 -> Frac(1, 2)

\* the bounding box with the longitude half-width taken equal to the
\* latitude half-width
GeoBoxNoCos(lat, lng, radius) ==
    LET userLat == Frac(lat, 1)
        userLng == Frac(lng, 1)
        maxDistance == Frac(radius, 1)
        dLat == FDiv(maxDistance, Frac(111, 1))
    IN  [latGte |-> FSub(userLat, dLat), latLte |-> FAdd(userLat, dLat),
         lngGte |-> FSub(userLng, dLat), lngLte |-> FAdd(userLng, dLat)]

\* the bounds of the where() clause added when lat and lng are supplied
GeoBox(lat, lng, radius) ==
    LET userLat == Frac(lat, 1)
        userLng == Frac(lng, 1)
        maxDistance == Frac(radius, 1)
        dLat == FDiv(maxDistance, Frac(111, 1))
        dLng == FDiv(maxDistance, FMul(Frac(111, 1), Cos(lat)))
    IN  [latGte |-> FSub(userLat, dLat), latLte |-> FAdd(userLat, dLat),
         lngGte |-> FSub(userLng, dLng), lngLte |-> FAdd(userLng, dLng)]

\* does document d satisfy the where() clause
InBox(d, box) ==
    /\ FLe(box.latGte, Frac(d.lat, 1)) /\ FLe(Frac(d.lat, 1), box.latLte)
    /\ FLe(box.lngGte, Frac(d.lng, 1)) /\ FLe(Frac(d.lng, 1), box.lngLte)

\* if (lat && lng)
GeoGiven(q) == "lat" \in DOMAIN q /\ "lng" \in DOMAIN q

\* the documents the find() of the public listing selects: filter and where()
Selected(q) ==
    {i \in 1..Len(issues) :
        /\ FilterMatches(issues[i], q, TRUE)
        /\ GeoGiven(q) => InBox(issues[i], GeoBox(q.lat, q.lng, Param(q, "radius", 10)))}

\* the documents the find() of the admin listing selects
AdminSelected(q) == {i \in 1..Len(issues) : FilterMatches(issues[i], q, FALSE)}

(* .sort(sort) *)

\* strings compare by their characters: the order of the priority values
PriorityCollation(p) == CASE p = "Critical" -> 1
                          [] p = "High" -> 2
                          [] p = "Low" -> 3
                          [] p = "Medium" -> 4

\* sort key that reads voteCount off the document
SortKeyWithVotes(d, sortBy) ==
    CASE sortBy = "createdAt" -> d.createdAt
      [] sortBy = "lastActivity" -> d.lastActivity
      [] sortBy = "priority" -> PriorityCollation(d.priority)
      [] sortBy = "voteCount" -> VoteCount(d)

\* the value the store sorts a document by; voteCount is a virtual of the
\* schema, not a stored path, so every document has the same (missing) value
SortKey(d, sortBy) ==
    CASE sortBy = "createdAt" -> d.createdAt
      [] sortBy = "lastActivity" -> d.lastActivity
      [] sortBy = "priority" -> PriorityCollation(d.priority)
      [] sortBy = "voteCount" -> 0

\* sort[sortBy] = sortOrder === 'asc' ? 1 : -1
Direction(sortOrder) == IF sortOrder = "asc" THEN 1 ELSE -1

\* the sequences that hold each document of S once
Arrangements(S) ==
    {p \in [1..Cardinality(S) -> S] : \A i, j \in 1..Cardinality(S) : i # j => p[i] # p[j]}

\* the orders in which the store may return S: sorted by the key in the
\* direction asked for; documents with equal keys come in any order
SortedOrders(S, sortBy, sortOrder) ==
    {p \in Arrangements(S) :
        \A i \in 1..(Len(p) - 1) :
            Direction(sortOrder) * SortKey(issues[p[i]], sortBy)
                <= Direction(sortOrder) * SortKey(issues[p[i + 1]], sortBy)}

\* the order among them that keeps documents with equal keys in insertion order
StableOrder(S, sortBy, sortOrder) ==
    CHOOSE p \in SortedOrders(S, sortBy, sortOrder) :
        \A i \in 1..(Len(p) - 1) :
            SortKey(issues[p[i]], sortBy) = SortKey(issues[p[i + 1]], sortBy) => p[i] < p[i + 1]

(* .skip(skip).limit(limit) and the pagination block of the response *)

Skip(page, limit) == (page - 1) * limit

\* Math.ceil(total / limit), limit >= 1
Ceil(total, limit) == (total + limit - 1) \div limit

\* the window of the sorted sequence that skip and limit cut out
Window(sorted, page, limit) ==
    SubSeq(sorted, Skip(page, limit) + 1, Min(Skip(page, limit) + limit, Len(sorted)))

\* isInt({min, max}) on a supplied parameter
IsInt(x, min, max) == x \in Int /\ x >= min /\ x <= max

\* limit validator that accepts every positive limit
LimitValidAny(q, cap) == "limit" \in DOMAIN q => q.limit \in Int /\ q.limit >= 1

\* query('limit').optional().isInt({min: 1, max: cap})
LimitValid(q, cap) == "limit" \in DOMAIN q => IsInt(q.limit, 1, cap)

\* query('page').optional().isInt({min: 1})
PageValid(q) == "page" \in DOMAIN q => q.page \in Int /\ q.page >= 1

\* validationResult(req).isEmpty() for the public listing
ListValid(q) ==
    /\ PageValid(q)
    /\ LimitValid(q, 50)
    /\ "category" \in DOMAIN q => q.category \in Categories
    /\ "status" \in DOMAIN q => q.status \in Statuses
    /\ "priority" \in DOMAIN q => q.priority \in Priorities
    /\ "sortBy" \in DOMAIN q => q.sortBy \in SortFields
    /\ "sortOrder" \in DOMAIN q => q.sortOrder \in SortOrders

\* validationResult(req).isEmpty() for the admin listing: sortBy and
\* sortOrder have no validator
AdminListValid(q) ==
    /\ PageValid(q)
    /\ LimitValid(q, 100)
    /\ "category" \in DOMAIN q => q.category \in Categories
    /\ "status" \in DOMAIN q => q.status \in Statuses
    /\ "priority" \in DOMAIN q => q.priority \in Priorities

\* res.json({issues, pagination}) : the page in order (documents by position)
\* and the pagination block
ListResponse(sorted, total, page, limit) ==
    [code |-> 200,
     issues |-> Window(sorted, page, limit),
     pagination |-> [currentPage |-> page,
                     totalPages |-> Ceil(total, limit),
                     totalItems |-> total,
                     itemsPerPage |-> limit]]

\* the response of GET / to query q when the store returns the selected
\* documents in the order sorted
ListAnswer(q, sorted) ==
    IF ~ListValid(q) THEN [code |-> 400]
    ELSE IF "search" \in DOMAIN q /\ ~ValidRegex(q.search) THEN [code |-> 500]
    ELSE ListResponse(sorted, CountDocuments(q, TRUE), Param(q, "page", 1), Param(q, "limit", 10))

\* the response of GET /admin/issues
AdminListAnswer(q, sorted) ==
    IF ~AdminListValid(q) THEN [code |-> 400]
    ELSE IF "search" \in DOMAIN q /\ ~ValidRegex(q.search) THEN [code |-> 500]
    ELSE ListResponse(sorted, CountDocuments(q, FALSE), Param(q, "page", 1), Param(q, "limit", 20))

(* Listing specification: a collection of stored issues, drawn from the    *)
(* documents below, and a client that sends one listing request and then   *)
(* asks for the following pages with the same criteria.                    *)

\* stored issues as POST /, the vote and the status handlers leave them;
\* idle is the time from creation to the last activity
Kinds ==
    {[isPublic |-> TRUE, category |-> "Roads & Transportation", status |-> "Open",
      priority |-> "Medium",
      title |-> <<"P", "o", "t", "h", "o", "l", "e">>,
      description |-> <<"d", "e", "e", "p">>,
      tags |-> <<>>,
      lat |-> 40, lng |-> -75, upvotes |-> <<>>, downvotes |-> <<>>, idle |-> 0],
     [isPublic |-> TRUE, category |-> "Utilities", status |-> "Open",
      priority |-> "High",
      title |-> <<"L", "a", "m", "p">>,
      description |-> <<"b", "y", " ", "p", "o", "t", "h", "o", "l", "e">>,
      tags |-> <<>>,
      lat |-> 41, lng |-> -75, upvotes |-> <<"bob", "carol">>, downvotes |-> <<>>, idle |-> 3],
     [isPublic |-> TRUE, category |-> "Environment", status |-> "Resolved",
      priority |-> "Critical",
      title |-> <<"B", "i", "n">>,
      description |-> <<"f", "u", "l", "l">>,
      tags |-> << <<"p", "o", "t", "h", "o", "l", "e", "s">> >>,
      lat |-> 61, lng |-> -73, upvotes |-> <<"dave">>, downvotes |-> <<"bob", "carol">>, idle |-> 1],
     [isPublic |-> FALSE, category |-> "Roads & Transportation", status |-> "Open",
      priority |-> "Low",
      title |-> <<"p", "o", "t", "h", "o", "l", "e">>,
      description |-> <<"d", "e", "e", "p">>,
      tags |-> <<>>,
      lat |-> 40, lng |-> -75, upvotes |-> <<"alice">>, downvotes |-> <<>>, idle |-> 0]}

\* the collection after the issues of ks have been created one after another
Stored(ks) ==
    [i \in 1..Len(ks) |->
        [isPublic |-> ks[i].isPublic, category |-> ks[i].category, status |-> ks[i].status,
         priority |-> ks[i].priority, title |-> ks[i].title,
         description |-> ks[i].description, tags |-> ks[i].tags,
         lat |-> ks[i].lat, lng |-> ks[i].lng,
         upvotes |-> ks[i].upvotes, downvotes |-> ks[i].downvotes,
         createdAt |-> i, lastActivity |-> i + ks[i].idle]]

NoParams == [x \in {} |-> x]

PageParams == {NoParams} \cup {"page" :> p : p \in {0, 1, 2}}

LimitParams == {NoParams} \cup {"limit" :> l : l \in {0, 1, 2, 50, 51, 100, 101}}

SearchParams ==
    {NoParams} \cup
    {"search" :> s : s \in {<<"p", "o", "t", "h", "o", "l", "e">>, <<"P", "O", "T">>,
                            <<"p", ".", "t">>, <<".">>, <<"(">>}}

EnumParams ==
    {NoParams, "status" :> "Open", "priority" :> "High",
     "category" :> "Roads & Transportation", "status" :> "Done"}

SortParams ==
    {NoParams} \cup {"sortBy" :> f : f \in SortFields}
               \cup {("sortBy" :> f) @@ ("sortOrder" :> o) : f \in SortFields, o \in SortOrders}

GeoParams ==
    {NoParams,
     ("lat" :> 40) @@ ("lng" :> -75) @@ ("radius" :> 10),
     ("lat" :> 40) @@ ("lng" :> -75),
     ("lat" :> 60) @@ ("lng" :> -75) @@ ("radius" :> 111),
     "lat" :> 40}

FirstPages == {NoParams, ("page" :> 1) @@ ("limit" :> 1), ("page" :> 1) @@ ("limit" :> 2)}

\* the query strings of the first request to GET /
ListQueries ==
    PageParams \cup LimitParams
    \cup {e @@ s : e \in {NoParams, "status" :> "Open"}, s \in SearchParams}
    \cup EnumParams
    \cup SortParams
    \cup {s @@ f : s \in {"sortBy" :> "priority", "sortBy" :> "voteCount"}, f \in FirstPages}
    \cup GeoParams
    \cup {g @@ f : g \in {("lat" :> 40) @@ ("lng" :> -75) @@ ("radius" :> 10)}, f \in FirstPages}
    \cup FirstPages

\* the query strings of the first request to GET /admin/issues
AdminListQueries ==
    PageParams \cup LimitParams
    \cup {e @@ s : e \in {NoParams, "status" :> "Open"}, s \in SearchParams}
    \cup EnumParams
    \cup SortParams
    \cup {s @@ f : s \in {"sortBy" :> "priority", "sortBy" :> "voteCount"}, f \in FirstPages}
    \cup FirstPages

\* the request asks for the page after the one just received, criteria kept
NextPageOf(kind, q) ==
    /\ listing.kind = kind
    /\ listing.answer.code = 200
    /\ listing.answer.pagination.currentPage < listing.answer.pagination.totalPages
    /\ "page" \in DOMAIN listing.query
    /\ q = [listing.query EXCEPT !["page"] = @ + 1]

\* the queries a client sends: any first request, then the next page
Requests(first) ==
    IF listing.kind = "none" THEN first
    ELSE IF "page" \in DOMAIN listing.query
         THEN {[listing.query EXCEPT !["page"] = @ + 1]}
         ELSE {}

\* the record of a listing request: the query, the response, the pages
\* received so far with these criteria, and whether the store returned the
\* selected documents in the stable order for every one of them
Listed(kind, q, sorted, stableOrder, answer) ==
    [kind |-> kind, query |-> q, answer |-> answer,
     pages |-> IF answer.code # 200 THEN <<>>
               ELSE (IF listing.kind = "none" THEN <<>> ELSE listing.pages) \o <<answer.issues>>,
     stable |-> /\ answer.code = 200
                /\ listing.kind = "none" \/ listing.stable
                /\ sorted = stableOrder]

InitList ==
    /\ issue = NoDoc
    /\ reqs = <<>>
    /\ creator = [pc |-> "done"]
    /\ now = 0
    /\ log = <<>>
    /\ issues \in {Stored(ks) : ks \in UNION {[1..n -> Kinds] : n \in 0..MaxIssues}}
    /\ listing = NoListing
    /\ overview = NoOverview
    /\ users = Users

\* GET / : validators, filter, sort, where(), skip and limit, countDocuments
GetIssues(q, sorted) ==
    /\ listing.kind = "none" \/ NextPageOf("public", q)
    /\ sorted \in SortedOrders(Selected(q), Param(q, "sortBy", "createdAt"), Param(q, "sortOrder", "desc"))
    /\ listing' = Listed("public", q, sorted,
                         StableOrder(Selected(q), Param(q, "sortBy", "createdAt"), Param(q, "sortOrder", "desc")),
                         ListAnswer(q, sorted))
    /\ UNCHANGED <<issue, reqs, creator, now, log, issues, overview, users>>

\* GET /admin/issues : adminAuth, validators, filter, sort, skip and limit,
\* countDocuments
AdminGetIssues(u, q, sorted) ==
    /\ listing.kind = "none" \/ NextPageOf("admin", q)
    /\ sorted \in SortedOrders(AdminSelected(q), Param(q, "sortBy", "createdAt"), Param(q, "sortOrder", "desc"))
    /\ listing' = IF ~AdminAuth(u)
                  THEN [kind |-> "admin", query |-> q, answer |-> [code |-> 403],
                        pages |-> <<>>, stable |-> FALSE]
                  ELSE Listed("admin", q, sorted,
                              StableOrder(AdminSelected(q), Param(q, "sortBy", "createdAt"), Param(q, "sortOrder", "desc")),
                              AdminListAnswer(q, sorted))
    /\ UNCHANGED <<issue, reqs, creator, now, log, issues, overview, users>>

NextList ==
    \/ \E q \in Requests(ListQueries) :
           \E sorted \in Arrangements(Selected(q)) : GetIssues(q, sorted)
    \/ \E u \in Admins, q \in Requests(AdminListQueries) :
           \E sorted \in Arrangements(AdminSelected(q)) : AdminGetIssues(u, q, sorted)

SpecList == InitList /\ [][NextList]_vars

-----------------------------------------------------------------------------
(* Statistics specification: issues created at time 0, PUT                  *)
(* /admin/issues/:id/status requests applied to them one after another as   *)
(* the days pass, then one GET /stats/overview.  A stored issue is kept by  *)
(* the paths the aggregation reads (status, createdAt,                     *)
(* actualResolutionDate); dates are milliseconds.  categoryStats, which    *)
(* reads category alone, is left out of the response.                      *)

\* 1000 * 60 * 60 * 24
MsPerDay == 1000 * 60 * 60 * 24

\* the times at which the requests of this specification arrive: whole days
StatClock == {d * MsPerDay : d \in 0..MaxDay} \ 0..(now - 1)

RECURSIVE GCD(_, _)
GCD(a, b) == IF b = 0 THEN a ELSE GCD(b, a % b)

\* a fraction in lowest terms
Reduce(f) ==
    LET g == GCD(Abs(f.n), f.d)
    IN  IF g = 0 THEN f ELSE [n |-> f.n \div g, d |-> f.d \div g]

\* the value $avg ignores
Null == [null |-> TRUE]

\* a stored issue that nobody has resolved yet
OpenIssue == [status |-> "Open", category |-> "Other", createdAt |-> 0,
              actualResolutionDate |-> NoDate]

\* bodies of PUT /admin/issues/:id/status in this specification
StatStatuses == {"Resolved", "Closed", "Open"}

\* the per-document operand of $avg that counts an issue without a
\* resolution date as zero days
ResolutionDaysOrZero(d) ==
    IF d.actualResolutionDate # NoDate
    THEN Reduce(FDiv(Frac(d.actualResolutionDate - d.createdAt, 1), Frac(MsPerDay, 1)))
    ELSE Frac(0, 1)

\* the per-document operand of $avg: ($actualResolutionDate - $createdAt) /
\* MsPerDay where the document has a resolution date, null where it has none
\* (the subtraction on the missing path gives null as well)
ResolutionDays(d) ==
    IF d.actualResolutionDate # NoDate
    THEN Reduce(FDiv(Frac(d.actualResolutionDate - d.createdAt, 1), Frac(MsPerDay, 1)))
    ELSE Null

RECURSIVE FSum(_)
FSum(fs) == IF fs = <<>> THEN Frac(0, 1) ELSE Reduce(FAdd(Head(fs), FSum(Tail(fs))))

\* $avg : the mean of the numeric operands, null when there is none
Avg(operands) ==
    LET numeric == SelectSeq(operands, LAMBDA x : x # Null)
    IN  IF numeric = <<>> THEN Null
        ELSE Reduce(FDiv(FSum(numeric), Frac(Len(numeric), 1)))

\* $sum of 1 over the documents with the status
CountStatus(docs, status) == Cardinality({i \in 1..Len(docs) : docs[i].status = status})

\* the response when the store is not connected, when the collection is
\* empty, and when the aggregation fails
ZeroOverview ==
    [totalIssues |-> 0, openIssues |-> 0, inProgressIssues |-> 0, resolvedIssues |-> 0,
     avgResolutionTime |-> Frac(0, 1)]

\* Issue.aggregate([{$group: {_id: null, ...}}]) : one group over the whole
\* collection, no group when the collection is empty
Aggregate(docs) ==
    IF docs = <<>> THEN <<>>
    ELSE <<[totalIssues |-> Len(docs),
            openIssues |-> CountStatus(docs, "Open"),
            inProgressIssues |-> CountStatus(docs, "In Progress"),
            resolvedIssues |-> CountStatus(docs, "Resolved"),
            avgResolutionTime |-> Avg([i \in 1..Len(docs) |-> ResolutionDays(docs[i])])]>>

InitStats ==
    /\ issue = NoDoc
    /\ reqs = <<>>
    /\ creator = [pc |-> "done"]
    /\ now = 0
    /\ log = <<>>
    /\ issues \in {[i \in 1..n |-> OpenIssue] : n \in 0..MaxStatIssues}
    /\ listing = NoListing
    /\ overview = NoOverview
    /\ users = Users

\* PUT /admin/issues/:id/status on the i-th issue: adminAuth, updateData with
\* actualResolutionDate = new Date() for Resolved and Closed, findByIdAndUpdate
SetStatus(i, u, status, t) ==
    /\ overview = NoOverview
    /\ i \in 1..Len(issues)
    /\ AdminAuth(u)
    /\ issues' = [issues EXCEPT ![i] =
                     [@ EXCEPT !.status = status,
                               !.actualResolutionDate =
                                   IF status = "Resolved" \/ status = "Closed" THEN t ELSE @]]
    /\ now' = t
    /\ UNCHANGED <<issue, reqs, creator, log, listing, overview, users>>

\* Issue.aggregate([{$group: {_id: '$category', ...}}, {$sort: {count: -1}}]) :
\* one group per category present, the larger count first, groups of equal
\* count in any order
CategoryStats(docs) ==
    LET present == {docs[i].category : i \in 1..Len(docs)}
        Count(c) == Cardinality({i \in 1..Len(docs) : docs[i].category = c})
    IN  {s \in [1..Cardinality(present) -> [_id : present, count : 1..Len(docs)]] :
            /\ \A k \in DOMAIN s : s[k].count = Count(s[k]._id)
            /\ \A k, l \in DOMAIN s : k < l => s[k]._id # s[l]._id /\ s[k].count >= s[l].count}

\* res.json(...) of GET /stats/overview; res.json without res.status answers 200
StatsResponse(connected, threw, overview_, categoryStats) ==
    [kind |-> "stats", connected |-> connected, threw |-> threw, code |-> 200,
     overview |-> overview_, categoryStats |-> categoryStats]

\* GET /stats/overview with the catch block of the other handlers: 500
GetStatsRethrow(connected, threw) ==
    /\ overview = NoOverview
    /\ \E categoryStats \in CategoryStats(issues) :
          overview' =
             IF ~connected THEN StatsResponse(connected, FALSE, ZeroOverview, <<>>)
             ELSE IF threw
             THEN [StatsResponse(connected, threw, ZeroOverview, <<>>) EXCEPT !.code = 500]
             ELSE StatsResponse(connected, threw,
                                IF Aggregate(issues) = <<>> THEN ZeroOverview
                                ELSE Aggregate(issues)[1],
                                categoryStats)
    /\ UNCHANGED <<issue, reqs, creator, now, log, issues, listing, users>>

\* GET /stats/overview : zeros and no category when mongoose is not
\* connected; else the two aggregations, zeros when the first returns no
\* group; zeros and no category when an aggregation throws (threw)
GetStats(connected, threw) ==
    /\ overview = NoOverview
    /\ \E categoryStats \in CategoryStats(issues) :
          overview' =
             IF ~connected THEN StatsResponse(connected, FALSE, ZeroOverview, <<>>)
             ELSE IF threw THEN StatsResponse(connected, threw, ZeroOverview, <<>>)
             ELSE StatsResponse(connected, threw,
                                IF Aggregate(issues) = <<>> THEN ZeroOverview
                                ELSE Aggregate(issues)[1],
                                categoryStats)
    /\ UNCHANGED <<issue, reqs, creator, now, log, issues, listing, users>>

NextStats ==
    \/ \E i \in 1..MaxStatIssues, u \in Admins, status \in StatStatuses, t \in StatClock :
           SetStatus(i, u, status, t)
    \/ \E connected, threw \in BOOLEAN : GetStats(connected, threw)

SpecStats == InitStats /\ [][NextStats]_vars

-----------------------------------------------------------------------------
(* Properties of the vote toggle, sequential specification *)

Upvoters(d) == {u \in Users : HasUserVoted(d, u).upvoted}

Downvoters(d) == {u \in Users : HasUserVoted(d, u).downvoted}

Last(s) == s[Len(s)]

\* the vote of u that the toggle rule of the specification gives after the calls of l
RECURSIVE Tally(_, _)
Tally(l, u) ==
    IF l = <<>> THEN "none"
    ELSE LET prev == Tally(SubSeq(l, 1, Len(l) - 1), u)
             e == Last(l)
         IN  IF e.user # u THEN prev
             ELSE IF e.voteType = "upvote"
                  THEN (IF prev = "up" THEN "none" ELSE "up")
                  ELSE (IF prev = "down" THEN "none" ELSE "down")

\* the last two calls of the log are (u, t1) then (u, t2)
LastTwo(u, t1, t2) ==
    /\ Len(log) >= 2
    /\ log[Len(log) - 1].user = u /\ log[Len(log) - 1].voteType = t1
    /\ log[Len(log)].user = u /\ log[Len(log)].voteType = t2

\* C1: after any sequence of addVote calls applied one after another, no user
\* is in both votes.upvotes and votes.downvotes of the issue.
C1_NoUserInBoth == Range(issue.upvotes) \cap Range(issue.downvotes) = {}

\* a call has moved a user from one array to the other
C1_Witness ==
    \E i \in 1..Len(log) : log[i].before.downvoted /\ log[i].voteType = "upvote"

ScenarioABC == <<[user |-> "alice", voteType |-> "upvote", before |-> [upvoted |-> FALSE, downvoted |-> FALSE]],
                 [user |-> "bob", voteType |-> "upvote", before |-> [upvoted |-> FALSE, downvoted |-> FALSE]],
                 [user |-> "carol", voteType |-> "downvote", before |-> [upvoted |-> FALSE, downvoted |-> FALSE]]>>

\* C2: after any sequence of vote operations voteCount is the number of
\* upvoters minus the number of downvoters (as users, and as the toggle rule
\* gives them from the calls made); upvote by A, upvote by B and downvote by C
\* on a fresh issue give voteCount = 1.
C2_VoteCount ==
    /\ VoteCount(issue) = Cardinality(Upvoters(issue)) - Cardinality(Downvoters(issue))
    /\ VoteCount(issue) = Cardinality({u \in Users : Tally(log, u) = "up"})
                          - Cardinality({u \in Users : Tally(log, u) = "down"})
    /\ log = ScenarioABC => VoteCount(issue) = 1

C2_Witness == log = ScenarioABC /\ VoteCount(issue) = 1

\* C3 as stated: after addVote(u,'upvote') twice in a row, from any reachable
\* vote state, u is in neither array.
C3_Original ==
    \A u \in Users : LastTwo(u, "upvote", "upvote") =>
        ~HasUserVoted(issue, u).upvoted /\ ~HasUserVoted(issue, u).downvoted

\* C3 amended: when u had no upvote before the first of two consecutive
\* addVote(u,'upvote') calls, u is in neither array after the second.
C3_ToggleOff ==
    \A u \in Users :
        (LastTwo(u, "upvote", "upvote") /\ ~log[Len(log) - 1].before.upvoted) =>
            ~HasUserVoted(issue, u).upvoted /\ ~HasUserVoted(issue, u).downvoted

C3_Witness ==
    \E u \in Users :
        /\ LastTwo(u, "upvote", "upvote")
        /\ ~log[Len(log) - 1].before.upvoted
        /\ u \notin Range(issue.upvotes)

\* C4: after addVote(u,'upvote') followed by addVote(u,'downvote'), from any
\* reachable vote state, u is in downvotes and not in upvotes.
C4_UpThenDown ==
    \A u \in Users : LastTwo(u, "upvote", "downvote") =>
        HasUserVoted(issue, u).downvoted /\ ~HasUserVoted(issue, u).upvoted

C4_Witness ==
    \E u \in Users : LastTwo(u, "upvote", "downvote") /\ u \in Range(issue.downvotes)

\* the (user, array) memberships of a document
Memberships(d) ==
    {<<u, "upvotes">> : u \in Range(d.upvotes)} \cup {<<u, "downvotes">> : u \in Range(d.downvotes)}

\* the memberships added or removed between two documents
Changed(d, e) ==
    (Memberships(d) \ Memberships(e)) \cup (Memberships(e) \ Memberships(d))

\* C5 as stated: every addVote call adds or removes exactly one membership.
C5_Original ==
    [][log' # log => Cardinality(Changed(issue, issue')) = 1]_vars

\* C5 amended: every addVote call changes memberships of the calling user
\* only: exactly one when the user was in neither array or in the array of
\* the vote type, exactly two (one removed, one added) when the user was in
\* the opposite array.
C5_MembershipChange ==
    [][log' # log =>
          LET e == Last(log')
              flip == \/ e.voteType = "upvote" /\ e.before.downvoted
                      \/ e.voteType = "downvote" /\ e.before.upvoted
          IN  /\ Cardinality(Changed(issue, issue')) = IF flip THEN 2 ELSE 1
              /\ \A c \in Changed(issue, issue') : c[1] = e.user]_vars

\* the last call moved its user from upvotes to downvotes
C5_Witness ==
    /\ log # <<>>
    /\ Last(log).voteType = "downvote" /\ Last(log).before.upvoted
    /\ Last(log).user \in Range(issue.downvotes)

-----------------------------------------------------------------------------
(* Properties of the concurrent specification *)

\* the vote requests answered 200
VotesDone == {r \in Slots : reqs[r].pc = "done" /\ reqs[r].kind = "vote" /\ reqs[r].code = 200}

\* C6 as stated: when two vote requests of different users have both read the
\* issue before either saved (the read-modify-write interleaving) and both
\* were answered 200, the stored issue lacks the vote of one of them.
C6_Original ==
    \A r1, r2 \in VotesDone :
        (/\ reqs[r1].user # reqs[r2].user
         /\ reqs[r1].readV = reqs[r2].readV
         /\ issue.exists)
        => \E r \in {r1, r2} : HasUserVoted(issue, reqs[r].user) # reqs[r].userVote

\* C6 amended: vote requests of different users may interleave their read,
\* toggle and save, but no vote is lost among those answered 200: the stored
\* membership of a user with one successful vote request is the one that
\* request reported.
C6_NoLostVote ==
    \A r \in VotesDone :
        (/\ issue.exists
         /\ \A q \in VotesDone \ {r} : reqs[q].user # reqs[r].user)
        => HasUserVoted(issue, reqs[r].user) = reqs[r].userVote

\* two users' requests read the same version, both were answered 200 and both
\* votes are stored
C6_Witness ==
    \E r1, r2 \in VotesDone :
        /\ reqs[r1].user # reqs[r2].user
        /\ reqs[r1].readV = reqs[r2].readV
        /\ issue.exists
        /\ HasUserVoted(issue, reqs[r1].user) = reqs[r1].userVote
        /\ HasUserVoted(issue, reqs[r2].user) = reqs[r2].userVote
        /\ reqs[r1].userVote.upvoted /\ reqs[r2].userVote.upvoted

\* C7: in every reachable state of the stored issue, concurrent vote requests
\* included, no user is in both upvotes and downvotes.
C7_NoUserInBothStored ==
    issue.exists =>
        \A u \in Users : ~(HasUserVoted(issue, u).upvoted /\ HasUserVoted(issue, u).downvoted)

\* C8: the stored lastActivity is never before createdAt and never moves
\* backward.
C8_LastActivityMonotonic ==
    [][/\ issue'.exists => issue'.lastActivity >= issue'.createdAt
       /\ (issue.exists /\ issue'.exists) => issue'.lastActivity >= issue.lastActivity]_vars

ResolvedStatuses == {"Resolved", "Closed"}

\* C9: actualResolutionDate is written when the status changes from a value
\* outside Resolved/Closed to Resolved or Closed, and at no other step.
C9_ResolutionDateOncePerTransition ==
    [][(issue.exists /\ issue'.exists) =>
          LET into == issue.status \notin ResolvedStatuses /\ issue'.status \in ResolvedStatuses
          IN  /\ into => issue'.actualResolutionDate # NoDate
              /\ issue'.actualResolutionDate # issue.actualResolutionDate => into]_vars

\* C10: every step on an existing issue leaves the stored comments as they
\* were or appends, at the end, the comment of the request whose save it is,
\* with the requesting user as author.
C10_CommentsAppendOnly ==
    [][(issue.exists /\ issue'.exists) =>
          \/ issue'.comments = issue.comments
          \/ \E r \in Slots :
                /\ reqs[r].pc = "save" /\ reqs[r].kind = "comment"
                /\ reqs'[r].pc = "refetch"
                /\ issue'.comments =
                      Append(issue.comments,
                             [user |-> reqs[r].user, content |-> reqs[r].content,
                              isOfficial |-> reqs[r].isOfficial])]_vars

\* two comments of different authors are stored, the save of the second just
\* applied
C10_Witness ==
    /\ issue.exists
    /\ Len(issue.comments) = 2
    /\ issue.comments[1].user # issue.comments[2].user
    /\ \E r \in Slots : reqs[r].pc = "refetch"

-----------------------------------------------------------------------------
(* Properties of the access specification *)

Privileged(u) == Role(u) = "admin" \/ Role(u) = "moderator"

\* the request of slot r is of kind k and has not been answered
Pending(r, k) == reqs[r].pc \notin {"idle", "done"} /\ reqs[r].kind = k

\* the step answers the request of slot r, of kind k, with code
Answers(r, k, code) ==
    /\ reqs[r].pc # "done"
    /\ reqs'[r].pc = "done" /\ reqs'[r].kind = k /\ reqs'[r].code = code

\* C11: a comment with isOfficial = true reaches addComment and the store
\* only for a requester whose role is admin or moderator; the step that
\* answers a comment request 403 leaves the stored issue as it was, and the
\* 403 is given exactly to the official comments of the other roles.
C11_OfficialOnlyPrivileged ==
    [][/\ issue'.exists =>
             \A i \in 1..Len(issue'.comments) :
                 issue'.comments[i].isOfficial => Privileged(issue'.comments[i].user)
       /\ \A r \in Slots :
             /\ (Pending(r, "comment") /\ reqs[r].pc = "save" /\ reqs[r].isOfficial)
                    => Privileged(reqs[r].user)
             /\ Answers(r, "comment", 403) =>
                    /\ issue' = issue
                    /\ reqs[r].pc = "add" /\ reqs[r].isOfficial /\ ~Privileged(reqs[r].user)
             /\ (Pending(r, "comment") /\ reqs[r].pc = "add" /\ reqs'[r] # reqs[r]
                  /\ reqs[r].isOfficial /\ ~Privileged(reqs[r].user))
                    => reqs'[r] = Respond("comment", 403)]_vars

\* an official comment of the moderator is stored, an official comment of a
\* citizen has been answered 403
C11_Witness ==
    /\ issue.exists
    /\ issue.comments = <<[user |-> "bob", content |-> "noted", isOfficial |-> TRUE]>>
    /\ \E r \in Slots : reqs[r] = Respond("comment", 403)

\* may u edit an issue reported by reporter
CanEdit(u, reporter) == u = reporter \/ Privileged(u)

CanDelete(u, reporter) == u = reporter \/ Role(u) = "admin"

\* C13: DELETE /:id removes the stored issue only for a requester who is the
\* reporter or an admin; the step that answers a delete request 403 leaves
\* the issue stored, and no other requester (a moderator who is not the
\* reporter included) gets past the check.
C13_DeleteOnlyOwnerOrAdmin ==
    [][\A r \in Slots :
          /\ (Pending(r, "delete") /\ reqs[r].pc = "delete")
                 => CanDelete(reqs[r].user, "alice")
          /\ Answers(r, "delete", 403) =>
                 /\ issue' = issue /\ issue.exists
                 /\ reqs[r].pc = "idle"
          /\ (issue.exists /\ ~issue'.exists)
                 => \E q \in Slots :
                       /\ Pending(q, "delete") /\ reqs[q].pc = "delete"
                       /\ reqs'[q] = Respond("delete", 200)
                       /\ CanDelete(reqs[q].user, issue.reporter)]_vars

\* a delete request has been answered 403 with the issue still stored, and
\* the delete request of the admin has passed the check
C13_Witness ==
    /\ issue.exists
    /\ reqs[1] = Respond("delete", 403)
    /\ reqs[2].pc = "delete" /\ reqs[2].user = "carol"

-----------------------------------------------------------------------------
(* Properties of the listing specification *)

\* a listing request has been answered with a page
Listed200 == listing.kind \in {"public", "admin"} /\ listing.answer.code = 200

\* the documents that satisfy every criterion the find() of the request used
Chosen == IF listing.kind = "public" THEN Selected(listing.query)
          ELSE AdminSelected(listing.query)

\* Chosen in the order asked for, equal keys in creation order
ChosenInOrder ==
    StableOrder(Chosen, Param(listing.query, "sortBy", "createdAt"),
                Param(listing.query, "sortOrder", "desc"))

RECURSIVE Flatten(_)
Flatten(ss) == IF ss = <<>> THEN <<>> ELSE Head(ss) \o Flatten(Tail(ss))

\* the page number of the first request made with the criteria of the listing
FirstPage == listing.answer.pagination.currentPage - Len(listing.pages) + 1

\* the pages 1..totalPages have all been received
AllPagesReceived ==
    /\ FirstPage = 1
    /\ listing.answer.pagination.currentPage >= listing.answer.pagination.totalPages

\* the request asks for page 1 with a page size that holds the whole collection
WholeOnPage ==
    /\ Param(listing.query, "page", 1) = 1
    /\ Param(listing.query, "limit", IF listing.kind = "public" THEN 10 ELSE 20) >= Len(issues)

\* C14: with the store returning the stable order, a page holds the documents
\* (page-1)*L+1 .. page*L of the N matching issues in order, totalPages is
\* ceil(N/L), and the pages 1..totalPages put together are the matching
\* issues, each exactly once.
C14_Pagination ==
    (Listed200 /\ listing.stable) =>
        LET L == listing.answer.pagination.itemsPerPage
            page == listing.answer.pagination.currentPage
            N == Cardinality(Chosen)
        IN  /\ listing.answer.issues = SubSeq(ChosenInOrder, (page - 1) * L + 1, Min(page * L, N))
            /\ listing.answer.pagination.totalPages * L >= N
            /\ (listing.answer.pagination.totalPages - 1) * L < N
            /\ AllPagesReceived => Flatten(listing.pages) = ChosenInOrder

\* C15: totalItems of GET / is the number of issues that satisfy every
\* criterion used to select the page, the bounding box included, and
\* totalPages is ceil(totalItems / limit).
C15_TotalItems ==
    (Listed200 /\ listing.kind = "public") =>
        /\ listing.answer.pagination.totalItems = Cardinality(Selected(listing.query))
        /\ listing.answer.pagination.totalPages =
              Ceil(listing.answer.pagination.totalItems, listing.answer.pagination.itemsPerPage)

\* C16: page defaults to 1 and limit to 10 (GET /) or 20 (GET /admin/issues);
\* a limit above 50 (GET /) or 100 (GET /admin/issues) or a page below 1 is
\* answered 400 without a page; an accepted limit is used as it is.
C16_DefaultsAndCaps ==
    (listing.kind \in {"public", "admin"} /\ listing.answer.code # 403) =>
        LET q == listing.query
            cap == IF listing.kind = "public" THEN 50 ELSE 100
            default == IF listing.kind = "public" THEN 10 ELSE 20
        IN  /\ (("limit" \in DOMAIN q /\ q.limit > cap) \/ ("page" \in DOMAIN q /\ q.page < 1))
                  => listing.answer = [code |-> 400]
            /\ listing.answer.code = 200 =>
                  /\ listing.answer.pagination.currentPage = (IF "page" \in DOMAIN q THEN q.page ELSE 1)
                  /\ listing.answer.pagination.itemsPerPage = (IF "limit" \in DOMAIN q THEN q.limit ELSE default)
                  /\ Len(listing.answer.issues) <= listing.answer.pagination.itemsPerPage

\* GET / with limit 51 has been answered 400 over a collection of two issues
C16_Witness ==
    /\ listing.kind = "public"
    /\ listing.query = ("limit" :> 51)
    /\ listing.answer = [code |-> 400]
    /\ Len(issues) = 2

\* C17: the listing holds exactly the issues (the public ones, for GET /)
\* that equal every supplied enum criterion and, when search is supplied,
\* contain the search text, letter case aside, in the title, the description
\* or a tag.
C17_FilterExact ==
    (/\ listing.kind \in {"public", "admin"}
     /\ listing.answer.code \notin {400, 403}
     /\ ~GeoGiven(listing.query)
     /\ WholeOnPage)
    => LET q == listing.query
       IN  /\ listing.answer.code = 200
           /\ Range(listing.answer.issues) =
                 {i \in 1..Len(issues) :
                     /\ listing.kind = "public" => issues[i].isPublic
                     /\ "category" \in DOMAIN q => issues[i].category = q.category
                     /\ "status" \in DOMAIN q => issues[i].status = q.status
                     /\ "priority" \in DOMAIN q => issues[i].priority = q.priority
                     /\ "search" \in DOMAIN q => SearchMatchesLiteral(issues[i], q.search)}

\* C18: the issues of a GET / page are in the order of the sortBy field's
\* value, in the direction of sortOrder, issues of equal value in creation
\* order.
C18_SortedByField ==
    (Listed200 /\ listing.kind = "public") =>
        LET s == listing.answer.issues
            key(i) == Direction(Param(listing.query, "sortOrder", "desc"))
                      * SortKeyWithVotes(issues[i], Param(listing.query, "sortBy", "createdAt"))
        IN  \A a, b \in 1..Len(s) :
                a < b => \/ key(s[a]) < key(s[b])
                         \/ key(s[a]) = key(s[b]) /\ issues[s[a]].createdAt < issues[s[b]].createdAt

\* latitude within r/111 of lat and longitude within r/(111*cos(lat)) of lng
WithinBox(d, lat, lng, r) ==
    /\ Abs(d.lat - lat) * 111 <= r
    /\ Abs(d.lng - lng) * 111 * Cos(lat).n <= r * Cos(lat).d

\* C19: with lat, lng and radius supplied, GET / lists an issue that passes
\* the filter iff its latitude is within r/111 of lat and its longitude
\* within r/(111*cos(lat)) of lng, bounds included; center (40,-75) with
\* radius 10 leaves out an issue at (41,-75).
C19_GeoBox ==
    (/\ Listed200 /\ listing.kind = "public"
     /\ GeoGiven(listing.query) /\ "radius" \in DOMAIN listing.query
     /\ WholeOnPage)
    => LET q == listing.query
       IN  /\ \A i \in 1..Len(issues) :
                 FilterMatches(issues[i], q, TRUE) =>
                     (i \in Range(listing.answer.issues)
                         <=> WithinBox(issues[i], q.lat, q.lng, q.radius))
           /\ (q.lat = 40 /\ q.lng = -75 /\ q.radius = 10) =>
                 \A i \in Range(listing.answer.issues) :
                     ~(issues[i].lat = 41 /\ issues[i].lng = -75)

\* center (40,-75), radius 10: of a public issue at (40,-75) and a public
\* issue at (41,-75), the listing holds the first only
C19_Witness ==
    /\ Listed200 /\ listing.kind = "public"
    /\ listing.query = ("lat" :> 40) @@ ("lng" :> -75) @@ ("radius" :> 10)
    /\ Len(issues) = 2
    /\ issues[1].isPublic /\ issues[1].lat = 41 /\ issues[1].lng = -75
    /\ issues[2].isPublic /\ issues[2].lat = 40 /\ issues[2].lng = -75
    /\ listing.answer.issues = <<2>>

-----------------------------------------------------------------------------
(* Properties of the statistics specification *)

\* the issues that are resolved: status Resolved or Closed
ResolvedIssues == {i \in 1..Len(issues) : issues[i].status \in ResolvedStatuses}

RECURSIVE SumMs(_)
SumMs(S) ==
    IF S = {} THEN 0
    ELSE LET i == CHOOSE x \in S : TRUE
         IN  (issues[i].actualResolutionDate - issues[i].createdAt) + SumMs(S \ {i})

\* C20: avgResolutionTime is the mean, in days, of actualResolutionDate -
\* createdAt over the resolved issues, the others left out (not counted as
\* zero), whatever status requests came before; two issues resolved after 2
\* and 4 days and one unresolved issue give 3.
C20_AvgOverResolvedOnly ==
    (overview.kind = "stats" /\ overview.connected /\ ~overview.threw /\ ResolvedIssues # {}) =>
        overview.overview.avgResolutionTime =
            Reduce(Frac(SumMs(ResolvedIssues), Cardinality(ResolvedIssues) * MsPerDay))

-----------------------------------------------------------------------------
(* Properties of the vote response and of addVote's frame *)

Occurrences(s, u) == Cardinality({i \in 1..Len(s) : s[i] = u})

\* C27: after addVote calls applied one after another, each user appears at
\* most once within upvotes and at most once within downvotes, so voteCount
\* is the number of distinct upvoters minus the number of distinct downvoters.
C27_AtMostOnce ==
    /\ \A u \in Users : Occurrences(issue.upvotes, u) <= 1
    /\ \A u \in Users : Occurrences(issue.downvotes, u) <= 1
    /\ VoteCount(issue) = Cardinality(Range(issue.upvotes)) - Cardinality(Range(issue.downvotes))

\* alice upvotes, takes the vote back and upvotes again: one entry
C27_Witness ==
    /\ Len(log) = 3
    /\ \A i \in 1..3 : log[i].user = "alice" /\ log[i].voteType = "upvote"
    /\ issue.upvotes = <<"alice">>

\* C28: addVote(u, t) changes only u's own membership: every other user's
\* presence in upvotes and in downvotes is the same before and after, and the
\* issue's comments, status, priority and viewCount are unchanged.
C28_OnlyOwnMembership ==
    [][log' # log =>
          LET u == log'[Len(log')].user
          IN  /\ \A v \in Users \ {u} :
                    /\ Occurrences(issue'.upvotes, v) = Occurrences(issue.upvotes, v)
                    /\ Occurrences(issue'.downvotes, v) = Occurrences(issue.downvotes, v)
              /\ issue'.comments = issue.comments
              /\ issue'.status = issue.status
              /\ issue'.priority = issue.priority
              /\ issue'.viewCount = issue.viewCount]_vars

\* bob flips his upvote to a downvote while alice's upvote and carol's
\* downvote stay where they were
C28_Witness ==
    /\ Len(log) >= 3
    /\ log[Len(log)].user = "bob" /\ log[Len(log)].voteType = "downvote"
    /\ log[Len(log)].before.upvoted
    /\ "alice" \in Range(issue.upvotes)
    /\ Range(issue.downvotes) = {"carol", "bob"}

-----------------------------------------------------------------------------
(* Properties of the statistics handler's error handling *)

\* C21: GET /stats/overview never fails because of the store: it always
\* answers 200, and when mongoose is not connected or an aggregation throws
\* the answer is the zeroed overview (every count and avgResolutionTime 0)
\* with an empty categoryStats list.
C21_StatsNeverFail ==
    overview.kind = "stats" =>
        /\ overview.code = 200
        /\ (~overview.connected \/ overview.threw) =>
              /\ overview.overview.totalIssues = 0
              /\ overview.overview.openIssues = 0
              /\ overview.overview.inProgressIssues = 0
              /\ overview.overview.resolvedIssues = 0
              /\ overview.overview.avgResolutionTime = Frac(0, 1)
              /\ overview.categoryStats = <<>>

\* the store holds a resolved issue, the aggregation throws, and the
\* response is 200 with zeros
C21_Witness ==
    /\ overview.kind = "stats" /\ overview.connected /\ overview.threw
    /\ overview.code = 200
    /\ overview.overview.totalIssues = 0
    /\ \E i \in 1..Len(issues) : issues[i].status = "Resolved"

-----------------------------------------------------------------------------
(* View specification: concurrent GET /:id requests, and vote requests,    *)
(* on an issue that has been created.                                      *)

\* Issue.findById (the populate calls change no stored path), then
\* issue.viewCount += 1 on the handler's document
ViewFind(r) ==
    /\ CanStart(r)
    /\ reqs' = [reqs EXCEPT ![r] =
                  IF ~issue.exists THEN Respond("view", 404)
                  ELSE LET m == Load(issue)
                       IN  [kind |-> "view", pc |-> "save", code |-> 0,
                            m |-> [m EXCEPT !.doc.viewCount = @ + 1,
                                            !.set = @ \cup {"viewCount"}]]]
    /\ UNCHANGED <<issue, creator, now, log, listVars>>

\* issue.save(): $set of viewCount to the value computed in memory, then
\* res.json(issue)
ViewSave(r) ==
    LET q == reqs[r] IN
    /\ q.pc = "save" /\ q.kind = "view"
    /\ IF SaveMatches(issue, q.m)
       THEN /\ issue' = SaveApply(issue, q.m)
            /\ reqs' = [reqs EXCEPT ![r] =
                          [kind |-> q.kind, pc |-> "done", code |-> 200,
                           viewCount |-> q.m.doc.viewCount]]
       ELSE /\ reqs' = [reqs EXCEPT ![r] = Respond(q.kind, 500)]
            /\ UNCHANGED issue
    /\ UNCHANGED <<creator, now, log, listVars>>

InitView ==
    /\ issue = [NewIssue("alice", "Pothole", "Medium", 0) EXCEPT !.createdAt = 0]
    /\ reqs = [r \in 1..MaxViewReq |-> Idle]
    /\ creator = [pc |-> "done"]
    /\ now = 0
    /\ log = <<>>
    /\ issues = <<>>
    /\ listing = NoListing
    /\ overview = NoOverview
    /\ users = Users

NextView ==
    \/ \E r \in Slots : ViewFind(r)
    \/ \E r \in Slots : ViewSave(r)
    \/ \E r \in Slots, voteType \in VoteTypes : VoteFind(r, "bob", voteType)
    \/ \E r \in Slots, t \in Clock : VoteToggle(r, t)
    \/ \E r \in Slots : VoteSave(r)

SpecView == InitView /\ [][NextView]_vars

\* the GET /:id requests that have been answered 200
ViewsAnswered == {r \in Slots : reqs[r].pc = "done" /\ reqs[r].kind = "view" /\ reqs[r].code = 200}

\* C23: viewCount is a monotonic counter: no step decreases it, and after n
\* successful GET /:id requests, in any interleaving, the stored viewCount
\* is n.
C23_ViewCounter ==
    /\ [](issue.viewCount = Cardinality(ViewsAnswered))
    /\ [][issue'.viewCount >= issue.viewCount]_vars

\* the part of C23 that holds: no step moves viewCount by more than one
\* GET's worth, and nothing but the save of a GET /:id writes it
ViewCountWrittenByViewsOnly ==
    [][issue'.viewCount # issue.viewCount =>
          \E r \in Slots : reqs[r].pc = "save" /\ reqs[r].kind = "view"
                            /\ reqs'[r].pc = "done"
                            /\ issue'.viewCount = reqs[r].m.doc.viewCount]_vars

\* two GETs answered 200 while the stored viewCount is 1
LostView ==
    /\ Cardinality(ViewsAnswered) = 2
    /\ issue.viewCount = 1

\* three GETs answered 200, the last save writing 1 over a stored 2
ViewCountDecreased ==
    /\ Cardinality(ViewsAnswered) = 3
    /\ issue.viewCount = 1
    /\ \E r \in Slots : reqs[r].kind = "view" /\ reqs[r].viewCount = 2

-----------------------------------------------------------------------------
(* Account specification: DELETE /users/account and DELETE /admin/users/:id *)
(* while the reporter's POST / is in flight.  The two deletions are two     *)
(* store commands, Issue.deleteMany and then User.findByIdAndDelete.        *)

\* account requests name no issue: they can be sent at any time
CanSend(r) ==
    /\ reqs[r].pc = "idle"
    /\ \A q \in 1..(r - 1) : reqs[q].pc # "idle"

\* DELETE /users/account : auth has found the account of u
AccountStart(r, u) ==
    /\ CanSend(r)
    /\ Auth(u)
    /\ reqs' = [reqs EXCEPT ![r] = [kind |-> "account", user |-> u, target |-> u,
                                    pc |-> "issues", code |-> 0]]
    /\ UNCHANGED <<issue, creator, now, log, listVars>>

\* DELETE /admin/users/:id : adminAuth, then User.findById(id); null means 404
UserDeleteFind(r, u, id) ==
    /\ CanSend(r)
    /\ Auth(u) /\ AdminAuth(u)
    /\ reqs' = [reqs EXCEPT ![r] =
                  IF id \notin users THEN Respond("userdelete", 404)
                  ELSE [kind |-> "userdelete", user |-> u, target |-> id,
                        pc |-> "issues", code |-> 0]]
    /\ UNCHANGED <<issue, creator, now, log, listVars>>

\* Issue.deleteMany({reporter: id})
DeleteIssuesOf(r) ==
    LET q == reqs[r] IN
    /\ q.pc = "issues"
    /\ issue' = IF issue.exists /\ issue.reporter = q.target THEN NoDoc ELSE issue
    /\ reqs' = [reqs EXCEPT ![r] = [q EXCEPT !.pc = "user"]]
    /\ UNCHANGED <<creator, now, log, listVars>>

\* User.findByIdAndDelete(id), then the 200 response
DeleteUser(r) ==
    LET q == reqs[r] IN
    /\ q.pc = "user"
    /\ users' = users \ {q.target}
    /\ reqs' = [reqs EXCEPT ![r] = [q EXCEPT !.pc = "done", !.code = 200]]
    /\ UNCHANGED <<issue, creator, now, log, issues, listing, overview>>

InitAccount ==
    /\ issue = NoDoc
    /\ reqs = [r \in 1..MaxAccountReq |-> Idle]
    /\ creator = [pc |-> "idle"]
    /\ now = 0
    /\ log = <<>>
    /\ issues = <<>>
    /\ listing = NoListing
    /\ overview = NoOverview
    /\ users = Users

NextAccount ==
    \/ \E title \in {"Pothole"}, priority \in Priorities, t \in Clock : CreateBuild(title, priority, t)
    \/ \E t \in Clock : CreateSave(t)
    \/ \E r \in Slots, u \in {"alice", "dave"} : AccountStart(r, u)
    \/ \E r \in Slots, u \in Admins, id \in {"alice", "dave"} : UserDeleteFind(r, u, id)
    \/ \E r \in Slots : DeleteIssuesOf(r)
    \/ \E r \in Slots : DeleteUser(r)

SpecAccount == InitAccount /\ [][NextAccount]_vars

\* the accounts whose deletion has been answered 200
DeletedAccounts ==
    {reqs[r].target : r \in {x \in Slots : reqs[x].pc = "done" /\ reqs[x].code = 200}}

\* C24: once DELETE /users/account or DELETE /admin/users/:id has been
\* answered 200 for user u, no stored issue has u as reporter, also when the
\* deletion interleaves with an issue creation by u.
C24_DeletionCascades ==
    \A u \in DeletedAccounts : ~(issue.exists /\ issue.reporter = u)

\* the part of C24 that holds: an issue stored before the deletion's
\* deleteMany is gone when the deletion is answered, unless it is stored anew
CascadeOfStoredIssues ==
    [][\A r \in Slots :
          (reqs[r].pc = "issues" /\ reqs'[r].pc = "user") =>
              ~(issue'.exists /\ issue'.reporter = reqs[r].target)]_vars

\* alice's account is gone and her issue is stored
OrphanIssue ==
    /\ "alice" \in DeletedAccounts
    /\ "alice" \notin users
    /\ issue.exists /\ issue.reporter = "alice"

-----------------------------------------------------------------------------
(* API specification: every handler that writes the tracked issue, sent    *)
(* with valid and invalid bodies by authorized and unauthorized accounts,  *)
(* from the creation of the issue on.                                      *)

\* bodies of PUT /:id, one of them with a priority outside the enum
ApiEditBodies == {[title |-> "Deep pothole", priority |-> "High"],
                  [title |-> "Hole", priority |-> ""]}

\* bodies of PUT /admin/issues/:id/status, one of them with a status outside the enum
ApiStatusBodies == {[status |-> "Resolved", assignedTo |-> "bob"],
                    [status |-> "Closed", assignedTo |-> NoUser],
                    [status |-> "Open", assignedTo |-> NoUser],
                    [status |-> "Done", assignedTo |-> NoUser]}

InitApi ==
    /\ issue = NoDoc
    /\ reqs = [r \in 1..MaxApiReq |-> Idle]
    /\ creator = [pc |-> "idle"]
    /\ now = 0
    /\ log = <<>>
    /\ issues = <<>>
    /\ listing = NoListing
    /\ overview = NoOverview
    /\ users = Users

NextApi ==
    \/ \E t \in Clock : CreateBuild("Pothole", "Medium", t)
    \/ \E t \in Clock : CreateSave(t)
    \/ \E r \in Slots, voteType \in {"upvote", "sideways"} : VoteFind(r, "bob", voteType)
    \/ \E r \in Slots, t \in Clock : VoteToggle(r, t)
    \/ \E r \in Slots : VoteSave(r)
    \/ \E r \in Slots, content \in {"noted", " "}, isOfficial \in BOOLEAN :
           CommentFind(r, "dave", content, isOfficial)
    \/ \E r \in Slots, t \in Clock : CommentAdd(r, t)
    \/ \E r \in Slots : CommentSave(r)
    \/ \E r \in Slots : CommentRefetch(r)
    \/ \E r \in Slots, u \in Editors, body \in ApiEditBodies : EditFind(r, u, body)
    \/ \E r \in Slots, t \in Clock : EditCheck(r, t)
    \/ \E r \in Slots : EditUpdate(r)
    \/ \E r \in Slots, u \in Admins, body \in ApiStatusBodies, t \in Clock : StartStatus(r, u, body, t)
    \/ \E r \in Slots : StatusUpdate(r)
    \/ \E r \in Slots, u \in Admins, priority \in {"Critical", "Urgent"}, t \in Clock :
           StartPriority(r, u, priority, t)
    \/ \E r \in Slots : PriorityUpdate(r)
    \/ \E r \in Slots, u \in Deleters : DeleteFind(r, u)
    \/ \E r \in Slots : DeleteExec(r)

SpecApi == InitApi /\ [][NextApi]_vars

-----------------------------------------------------------------------------
(* Properties of the API specification *)

\* request r is answered in this step
Answered(r) == reqs[r].pc # "done" /\ reqs'[r].pc = "done"

\* C25: status and assignedTo of a stored issue change only in the store
\* command of an admin-authorized PUT /admin/issues/:id/status; the issue is
\* created with status Open and no assignee; edit, vote, comment and priority
\* requests never change status or assignedTo.
C25_StatusOnlyByAdmin ==
    [][/\ (issue.exists /\ issue'.exists
            /\ (issue'.status # issue.status \/ issue'.assignedTo # issue.assignedTo)) =>
              \E r \in Slots : /\ reqs[r].pc = "update" /\ reqs[r].kind = "status"
                                /\ Answered(r) /\ reqs'[r].code = 200
                                /\ AdminAuth(reqs[r].user)
       /\ (~issue.exists /\ issue'.exists) =>
              (issue'.status = "Open" /\ issue'.assignedTo = NoUser)]_vars

\* the reporter's edit has been stored and the issue still has the status
\* and assignee that the admin's request gave it
C25_Witness ==
    /\ issue.exists /\ issue.title = "Deep pothole" /\ issue.priority = "High"
    /\ issue.status = "Resolved" /\ issue.assignedTo = "bob"
    /\ \E r \in Slots : reqs[r].pc = "done" /\ reqs[r].kind = "edit" /\ reqs[r].code = 200

\* C29: in every state reachable through the API, an issue whose status is
\* Resolved or Closed has actualResolutionDate set.
C29_ResolvedHasDate ==
    (issue.exists /\ issue.status \in {"Resolved", "Closed"}) =>
        issue.actualResolutionDate # NoDate

\* the issue has been closed and carries the date of the closing request
C29_Witness ==
    /\ issue.exists /\ issue.status = "Closed"
    /\ issue.actualResolutionDate # NoDate
    /\ \E r \in Slots : reqs[r].pc = "done" /\ reqs[r].kind = "status" /\ reqs[r].code = 200

\* C30: a vote, comment, edit, delete or admin status / priority request that
\* is answered 400, 403 or 404 leaves the stored issue and the user records
\* unchanged: the answering step writes nothing, and the request is answered
\* from a position that precedes every write of its handler.
C30_RejectedChangesNothing ==
    [][\A r \in Slots :
          (Answered(r) /\ reqs'[r].code \in {400, 403, 404}) =>
              (issue' = issue /\ users' = users /\ reqs[r].pc \in {"idle", "check", "add", "update"})]_vars

\* dave's edit has been answered 403 and a vote with an unknown voteType 400,
\* the issue being as it was created
C30_Witness ==
    /\ issue.exists /\ issue.title = "Pothole" /\ issue.v = 0 /\ issue.lastActivity = 0
    /\ \E r \in Slots : reqs[r].pc = "done" /\ reqs[r].kind = "edit" /\ reqs[r].code = 403
    /\ \E r \in Slots : reqs[r].pc = "done" /\ reqs[r].kind = "vote" /\ reqs[r].code = 400

-----------------------------------------------------------------------------
(* Failure specification: store commands that reject.  Every handler body  *)
(* is one try block; its catch block writes the error to the console and   *)
(* answers 500 with a fixed message.  `log` is the console: one entry per   *)
(* caught error.  A rejected command has changed nothing in the store.     *)

\* catch (error) { console.error(...); res.status(500).json({message: 'Server error while ...'}) }
ServerError(kind) == [kind |-> kind, pc |-> "done", code |-> 500, message |-> "Server error"]

\* the first store command of a handler rejects: findById of POST /:id/vote
\* and of DELETE /:id
FindFails(r, kind) ==
    /\ CanStart(r)
    /\ reqs' = [reqs EXCEPT ![r] = ServerError(kind)]
    /\ log' = Append(log, [req |-> r, command |-> "findById"])
    /\ UNCHANGED <<issue, creator, now, listVars>>

\* the pending store command of a request rejects: the save of addVote,
\* findByIdAndUpdate, findByIdAndDelete
CommandFails(r) ==
    LET q == reqs[r] IN
    /\ q.pc \in {"save", "update", "delete"}
    /\ reqs' = [reqs EXCEPT ![r] = ServerError(q.kind)]
    /\ log' = Append(log, [req |-> r, command |-> q.pc])
    /\ UNCHANGED <<issue, creator, now, listVars>>

\* the seven queries that GET /admin/dashboard awaits with Promise.all
DashboardQueries == {"totalUsers", "totalIssues", "recentIssues", "categoryStats",
                     "statusStats", "priorityStats", "recentUsers"}

\* res.json({overview: {totalUsers, totalIssues, ...}, ...})
DashboardResponse ==
    [kind |-> "dashboard", code |-> 200,
     totalUsers |-> Cardinality(users),
     totalIssues |-> IF issue.exists THEN 1 ELSE 0]

\* GET /admin/dashboard with the fallback of GET /stats/overview: zeros, no error
DashboardFallback(u, rejected) ==
    /\ overview = NoOverview
    /\ AdminAuth(u)
    /\ IF rejected # "none"
       THEN /\ overview' = [DashboardResponse EXCEPT !.totalUsers = 0, !.totalIssues = 0]
            /\ log' = Append(log, [req |-> 0, command |-> rejected])
       ELSE /\ overview' = DashboardResponse
            /\ UNCHANGED log
    /\ UNCHANGED <<issue, reqs, creator, now, issues, listing, users>>

\* GET /admin/dashboard : adminAuth; Promise.all rejects with the first query
\* that rejects (`rejected`), otherwise the counts
Dashboard(u, rejected) ==
    /\ overview = NoOverview
    /\ AdminAuth(u)
    /\ IF rejected # "none"
       THEN /\ overview' = [kind |-> "dashboard", code |-> 500, message |-> "Server error"]
            /\ log' = Append(log, [req |-> 0, command |-> rejected])
       ELSE /\ overview' = DashboardResponse
            /\ UNCHANGED log
    /\ UNCHANGED <<issue, reqs, creator, now, issues, listing, users>>

InitFail ==
    /\ issue = [NewIssue("alice", "Pothole", "Medium", 0) EXCEPT !.createdAt = 0]
    /\ reqs = [r \in 1..MaxFailReq |-> Idle]
    /\ creator = [pc |-> "done"]
    /\ now = 0
    /\ log = <<>>
    /\ issues = <<>>
    /\ listing = NoListing
    /\ overview = NoOverview
    /\ users = Users

NextFail ==
    \/ \E r \in Slots, voteType \in VoteTypes : VoteFind(r, "bob", voteType)
    \/ \E r \in Slots, t \in Clock : VoteToggle(r, t)
    \/ \E r \in Slots : VoteSave(r)
    \/ \E r \in Slots, t \in Clock :
           StartStatus(r, "carol", [status |-> "Resolved", assignedTo |-> NoUser], t)
    \/ \E r \in Slots : StatusUpdate(r)
    \/ \E r \in Slots : DeleteFind(r, "alice")
    \/ \E r \in Slots : DeleteExec(r)
    \/ \E r \in Slots, kind \in {"vote", "delete"} : FindFails(r, kind)
    \/ \E r \in Slots : CommandFails(r)
    \/ \E rejected \in DashboardQueries \cup {"none"} : Dashboard("carol", rejected)

SpecFail == InitFail /\ [][NextFail]_vars

\* the 500 answer with the fixed message, as the claim expects it
ServerErrorAnswer(kind) == [kind |-> kind, pc |-> "done", code |-> 500, message |-> "Server error"]

\* C22: outside GET /stats/overview (GET /admin/dashboard included), a store
\* command that rejects is surfaced at once: the step in which it rejects
\* answers the request 500 with the fixed message and writes nothing to the
\* store; an answered request issues no further command, so the rejected
\* command is never retried.
C22_FailureIs500 ==
    [][/\ log' # log =>
             LET e == log'[Len(log')]
             IN  /\ issue' = issue /\ users' = users
                 /\ IF e.req = 0
                    THEN overview'.code = 500 /\ overview'.message = "Server error"
                    ELSE /\ reqs[e.req].pc # "done"
                         /\ reqs'[e.req] = ServerErrorAnswer(reqs'[e.req].kind)
       /\ \A r \in Slots : reqs[r].pc = "done" => reqs'[r] = reqs[r]
       /\ overview # NoOverview => overview' = overview]_vars

\* the save of a vote and a dashboard query have rejected: both requests are
\* answered 500 and the issue holds no vote
C22_Witness ==
    /\ Len(log) = 2
    /\ \E r \in Slots : reqs[r].pc = "done" /\ reqs[r].kind = "vote" /\ reqs[r].code = 500
                        /\ \E i \in 1..2 : log[i] = [req |-> r, command |-> "save"]
    /\ overview.kind = "dashboard" /\ overview.code = 500
    /\ issue.upvotes = <<>> /\ issue.downvotes = <<>>

====
